---- MODULE Spec2Model ----
(***************************************************************************)
(* Event-sync engine of wb-blockchain: historical resync and live          *)
(* subscriptions of the Blockchain class (registry-based revision with     *)
(* block numbers on forward callbacks), together with the log-decoding     *)
(* revision of onCreated.                                                  *)
(*                                                                         *)
(* The ledger is a sequence of blocks, each holding raw logs.  The web3    *)
(* collaborator answers getBlockNumber / getPastEvents requests at some    *)
(* later moment and emits 'data' / 'changed' / 'error' on open streams.    *)
(***************************************************************************)
EXTENDS Integers, Sequences, FiniteSets, TLC

VARIABLES
    head,       \* number of the latest block of the ledger
    rpc,        \* position of the resync() call
    rFrom,      \* fromBlock of the resync() call: as given, and its value in the body
    headReads,  \* number of getBlockNumber() requests made by resync()
    latest,     \* latestBlockPromise
    q,          \* the ten getPastEvents requests of the call, by event name
    parts,      \* the five fetchChanged promises, by event name
    coll,       \* the six collection promises of the ResyncUpdate
    failures,   \* number of requests the node has failed so far
    streams,    \* live streams opened by the on<Kind> operations, by stream id
    handles,    \* EventSubscription objects, by handle id
    probe,      \* inputs of the conversions and what they made of them
    offerState, \* current attachedFiles and status of each offer contract
    afLogs,     \* AttachedFilesChanged logs of the registry, oldest first
    cidCall     \* the findCid() call: its position and local variables

resyncVars == <<rpc, rFrom, headReads, latest, q, parts, coll, failures>>
liveVars == <<streams, handles, probe>>
cidVars == <<offerState, afLogs, cidCall>>
vars == <<head, rpc, rFrom, headReads, latest, q, parts, coll, failures,
          streams, handles, probe, offerState, afLogs, cidCall>>

-----------------------------------------------------------------------------
(* Bounds of the model *)

MaxHeight == 2
LogsPerBlock == 5
MaxFailures == 1
MaxEmit == 3
MaxCalls == 2
MaxAfLogs == 3
MaxRaceLogs == 2
MaxMapped == 2
MaxChangedLogs == 3

-----------------------------------------------------------------------------
(* Event names and the Changed-family table *)

SimpleKinds == <<"Created", "Completed", "Cancelled", "Bought", "BuyerRejected">>

CHANGE_MAPPING ==
    << [event |-> "TitleChanged",         objField |-> "title",         ethField |-> "newTitle"],
       [event |-> "PriceChanged",         objField |-> "price",         ethField |-> "newPrice"],
       [event |-> "CategoryChanged",      objField |-> "category",      ethField |-> "newCategory"],
       [event |-> "ShipsFromChanged",     objField |-> "shipsFrom",     ethField |-> "newShipsFrom"],
       [event |-> "AttachedFilesChanged", objField |-> "attachedFiles", ethField |-> "newCID"] >>

Range(s) == {s[i] : i \in DOMAIN s}

ChangedKinds == {CHANGE_MAPPING[i].event : i \in DOMAIN CHANGE_MAPPING}

EventEnum == Range(SimpleKinds) \cup ChangedKinds

RowOf(k) == CHOOSE i \in DOMAIN CHANGE_MAPPING : CHANGE_MAPPING[i].event = k

\* Every value read from the ledger is a pair <<what, number>>; a property
\* read of a JavaScript object that lacks the property yields undefined.
Undefined == <<"undefined", 0>>
Get(obj, f) == IF f \in DOMAIN obj THEN obj[f] ELSE Undefined

SeqMap(Op(_), s) == [i \in DOMAIN s |-> Op(s[i])]

RECURSIVE Flatten(_)
Flatten(ss) == IF ss = <<>> THEN <<>> ELSE Head(ss) \o Flatten(Tail(ss))

-----------------------------------------------------------------------------
(* The ledger: raw logs as the registry contract emits them *)

Offers == << <<"address", 1>>, <<"address", 2>> >>

KindOrder ==
    << "Created", "PriceChanged", "Completed", "TitleChanged", "Bought",
       "CategoryChanged", "BuyerRejected", "ShipsFromChanged",
       "AttachedFilesChanged", "Cancelled" >>

CreatedFields ==
    {"offer", "seller", "title", "price", "category", "shipsFrom", "attachedFiles"}

\* Names of the decoded fields of a raw event of kind k.
EthFields(k) ==
    IF k = "Created" THEN CreatedFields
    ELSE IF k = "Bought" THEN {"offer", "buyer"}
    ELSE IF k \in ChangedKinds THEN {"offer", CHANGE_MAPPING[RowOf(k)].ethField}
    ELSE {"offer"}

\* Decoded fields of the n-th log of a history: every value but the offer
\* address is particular to the field and the log.
ReturnValues(k, offer, n) ==
    [f \in EthFields(k) |-> IF f = "offer" THEN offer ELSE <<f, n>>]

\* The j-th log of block b.
LogAt(b, j) ==
    LET n == (b - 1) * LogsPerBlock + (j - 1)
        k == KindOrder[(n % Len(KindOrder)) + 1]
    IN  [ event        |-> k,
          blockNumber  |-> b,
          logIndex     |-> j,
          returnValues |-> ReturnValues(k, Offers[((n \div 3) % Len(Offers)) + 1], n) ]

BlockLogs(b) == [j \in 1..LogsPerBlock |-> LogAt(b, j)]

\* All logs of the ledger up to height h, ordered by block then log index.
RECURSIVE LedgerLogs(_)
LedgerLogs(h) == IF h = 0 THEN <<>> ELSE LedgerLogs(h - 1) \o BlockLogs(h)

\* A block reference (string | number): a block number or a tag.
BlockNum(n) == [tag |-> "number", n |-> n]
Genesis == [tag |-> "genesis", n |-> 0]
Latest == [tag |-> "latest", n |-> 0]
NoBlock == [tag |-> "undefined", n |-> 0]

\* Block tags: "genesis" is block 0; "latest" or an absent bound is the
\* latest block.
LowerBound(fromBlock) ==
    IF fromBlock.tag = "number" THEN fromBlock.n
    ELSE IF fromBlock.tag = "genesis" THEN 0
    ELSE head

UpperBound(toBlock) == IF toBlock.tag = "number" THEN toBlock.n ELSE head

InRange(l, options) ==
    /\ LowerBound(options.fromBlock) <= l.blockNumber
    /\ l.blockNumber <= UpperBound(options.toBlock)

\* What the node answers to getPastEvents(eventName, options) when it
\* evaluates the request on the ledger of the current state.
getPastEvents(eventName, options) ==
    LET Match(l) == l.event = eventName /\ InRange(l, options)
    IN  SelectSeq(LedgerLogs(head), Match)

\* The node appends a block to the ledger.
AppendBlock ==
    /\ head < MaxHeight
    /\ head' = head + 1
    /\ UNCHANGED <<cidVars, resyncVars, liveVars>>

-----------------------------------------------------------------------------
(* resync(): conversions of raw events into normalized events *)

makeCreatedEvent(data) ==
    [ offer         |-> Get(data, "offer"),
      seller        |-> Get(data, "seller"),
      title         |-> Get(data, "title"),
      price         |-> Get(data, "price"),
      category      |-> Get(data, "category"),
      shipsFrom     |-> Get(data, "shipsFrom"),
      attachedFiles |-> Get(data, "attachedFiles") ]

createdConvert(event) == makeCreatedEvent(event.returnValues)

simpleConvert(event) == [offer |-> Get(event.returnValues, "offer")]

boughtConvert(event) ==
    [ offer |-> Get(event.returnValues, "offer"),
      buyer |-> Get(event.returnValues, "buyer") ]

\* A Changed event carrying every mapped field, not the one of its row.
fetchChangedEventAllFields(objKey, ethKey, event) ==
    [f \in {"offer"} \cup {CHANGE_MAPPING[i].objField : i \in DOMAIN CHANGE_MAPPING} |->
        IF f = "offer" THEN Get(event.returnValues, "offer")
        ELSE IF f = objKey THEN Get(event.returnValues, ethKey)
        ELSE Undefined]

\* The object literal { offer: ..., [objKey]: returnValues[ethKey] }.
fetchChangedEvent(objKey, ethKey, event) ==
    [f \in {"offer", objKey} |->
        IF f = "offer" THEN Get(event.returnValues, "offer")
        ELSE Get(event.returnValues, ethKey)]

\* The collection of the ResyncUpdate that the query of a simple kind feeds.
CollOf(k) ==
    CASE k = "Created"       -> "createdContracts"
      [] k = "Completed"     -> "completedContracts"
      [] k = "Cancelled"     -> "cancelledContracts"
      [] k = "Bought"        -> "boughtContracts"
      [] k = "BuyerRejected" -> "buyerRejectedContracts"
      [] OTHER               -> "changedContracts"

CollNames == {CollOf(k) : k \in EventEnum}

\* Every simple kind converted by simpleConvert.
ConvertAllSimple(k, events) == SeqMap(simpleConvert, events)

\* The .then(events => events.map(...)) chained on the query of a simple kind.
ConvertAll(k, events) ==
    CASE k = "Created" -> SeqMap(createdConvert, events)
      [] k = "Bought"  -> SeqMap(boughtConvert, events)
      [] OTHER         -> SeqMap(simpleConvert, events)

\* A fetchChanged that returns the events of its row latest first.
fetchChangedReversed(k, events) ==
    LET row == CHANGE_MAPPING[RowOf(k)]
        Cvt(e) == fetchChangedEvent(row.objField, row.ethField, e)
    IN  [i \in DOMAIN events |-> Cvt(events[Len(events) + 1 - i])]

\* The events.map(...) of fetchChanged for one CHANGE_MAPPING row.
fetchChanged(k, events) ==
    LET row == CHANGE_MAPPING[RowOf(k)]
        Cvt(e) == fetchChangedEvent(row.objField, row.ethField, e)
    IN  SeqMap(Cvt, events)

\* Place of a raw log on the ledger: <<block number, log index>>.
LogId(l) == <<l.blockNumber, l.logIndex>>

\* Order in which resync() chains its ten queries on latestBlockPromise, which
\* is the order in which their callbacks run once the promise resolves.
QueryOrder ==
    SimpleKinds \o [i \in DOMAIN CHANGE_MAPPING |-> CHANGE_MAPPING[i].event]

PosOf(k) == CHOOSE i \in DOMAIN QueryOrder : QueryOrder[i] = k

Pending == [state |-> "pending", events |-> <<>>, src |-> <<>>]

-----------------------------------------------------------------------------
(* resync(): the call and its promise callbacks *)

\* What the caller passes as fromBlock: nothing, or a checkpoint.
FromBlocks == {NoBlock, BlockNum(2)}

\* resync() with the default of the subscribe operations for fromBlock.
ResyncFromBlockLatest(fromBlock) == IF fromBlock = NoBlock THEN Latest ELSE fromBlock

\* The default parameter of resync: fromBlock = "genesis".
ResyncFromBlock(fromBlock) == IF fromBlock = NoBlock THEN Genesis ELSE fromBlock

\* A resync() that closes the open streams while it reads the history.
resyncClosingStreams(fromBlock) ==
    /\ rpc = "idle"
    /\ rpc' = "called"
    /\ rFrom' = [given |-> fromBlock, value |-> ResyncFromBlock(fromBlock)]
    /\ headReads' = headReads + 1
    /\ latest' = [state |-> "pending", value |-> 0]
    /\ q' = [k \in EventEnum |-> [state |-> "waiting", options |-> <<>>]]
    /\ parts' = [k \in ChangedKinds |-> Pending]
    /\ coll' = [c \in CollNames |-> Pending]
    /\ streams' = [i \in DOMAIN streams |-> [streams[i] EXCEPT !.active = FALSE]]
    /\ UNCHANGED <<cidVars, head, failures, handles, probe>>

\* resync(fromBlock): requests the head height, chains the ten queries on
\* that promise and returns the ResyncUpdate of seven pending promises.
resync(fromBlock) ==
    /\ rpc = "idle"
    /\ rpc' = "called"
    /\ rFrom' = [given |-> fromBlock, value |-> ResyncFromBlock(fromBlock)]
    /\ headReads' = headReads + 1
    /\ latest' = [state |-> "pending", value |-> 0]
    /\ q' = [k \in EventEnum |-> [state |-> "waiting", options |-> <<>>]]
    /\ parts' = [k \in ChangedKinds |-> Pending]
    /\ coll' = [c \in CollNames |-> Pending]
    /\ UNCHANGED <<cidVars, head, failures, liveVars>>

\* The node answers getBlockNumber(): latestBlockPromise, which is also
\* syncedToBlock, resolves to the height of that moment.
getBlockNumberResolve ==
    /\ latest.state = "pending"
    /\ latest' = [state |-> "resolved", value |-> head]
    /\ UNCHANGED <<cidVars, head, rpc, rFrom, headReads, q, parts, coll, failures, liveVars>>

\* syncedToBlock read from the node when it is asked for, not captured with
\* the bound of the queries.
syncedToBlockFresh == [state |-> latest.state, value |-> head]

\* ResyncUpdate.syncedToBlock is latestBlockPromise itself.
syncedToBlock == latest

\* runQuery reading the head height anew for each query.
QueryOptionsHeadPerQuery == [fromBlock |-> rFrom.value, toBlock |-> BlockNum(head)]

\* runQuery without an upper bound, as in the first revision of resync().
QueryOptionsNoToBlock == [fromBlock |-> rFrom.value, toBlock |-> NoBlock]

\* The options runQuery passes to getPastEvents.
QueryOptions == [fromBlock |-> rFrom.value, toBlock |-> BlockNum(latest.value)]

\* runQuery issuing its query at once, not in a callback of the promise.
HeadKnownEager == latest.state \in {"pending", "resolved"}

\* runQuery issues its query in a callback of latestBlockPromise.
HeadKnown == latest.state = "resolved"

\* Each query awaited before the next one is made.
ChainedAwaiting(k) ==
    \A i \in 1..(PosOf(k) - 1) : q[QueryOrder[i]].state \in {"resolved", "rejected"}

\* The ten callbacks are chained on the one latestBlockPromise, by calls of
\* runQuery that await nothing: the callback of a query runs once those
\* chained before it have run.
Chained(k) ==
    \A i \in 1..(PosOf(k) - 1) : q[QueryOrder[i]].state # "waiting"

\* The callback latestBlockPromise.then(toBlock => getPastEvents(...)) of
\* one query; the callbacks run in the order they were chained.
runQuery(k) ==
    /\ rpc = "called"
    /\ HeadKnown
    /\ q[k].state = "waiting"
    /\ Chained(k)
    /\ q' = [q EXCEPT ![k] = [state |-> "sent", options |-> QueryOptions]]
    /\ UNCHANGED <<cidVars, head, rpc, rFrom, headReads, latest, parts, coll, failures, liveVars>>

\* No callback chained on latestBlockPromise is left to run: a response of
\* the node is handled only after the callbacks that are ready.
Drained == \A k \in EventEnum : ~(q[k].state = "waiting" /\ Chained(k))

\* The five results concatenated from the last row to the first.
ChangedJoinReversed(ps) ==
    IF \A k \in ChangedKinds : ps[k].state = "resolved"
    THEN [ state  |-> "resolved",
           events |-> Flatten([i \in DOMAIN CHANGE_MAPPING |->
                         ps[CHANGE_MAPPING[Len(CHANGE_MAPPING) + 1 - i].event].events]),
           src    |-> Flatten([i \in DOMAIN CHANGE_MAPPING |->
                         ps[CHANGE_MAPPING[Len(CHANGE_MAPPING) + 1 - i].event].src]) ]
    ELSE Pending

\* Promise.all over the five fetchChanged promises, then the flattening
\* concat: resolved once all five are, in CHANGE_MAPPING order.
ChangedJoin(ps) ==
    IF \A k \in ChangedKinds : ps[k].state = "resolved"
    THEN [ state  |-> "resolved",
           events |-> Flatten([i \in DOMAIN CHANGE_MAPPING |-> ps[CHANGE_MAPPING[i].event].events]),
           src    |-> Flatten([i \in DOMAIN CHANGE_MAPPING |-> ps[CHANGE_MAPPING[i].event].src]) ]
    ELSE Pending

\* The node answers one getPastEvents request; the chained map builds the
\* collection (a simple kind) or the fetchChanged result (a Changed kind).
getPastEventsResolve(k) ==
    /\ q[k].state = "sent"
    /\ Drained
    /\ LET events == getPastEvents(k, q[k].options)
       IN  /\ q' = [q EXCEPT ![k].state = "resolved"]
           /\ IF k \in ChangedKinds
              THEN LET ps == [parts EXCEPT ![k] =
                                 [ state |-> "resolved",
                                   events |-> fetchChanged(k, events),
                                   src |-> SeqMap(LogId, events) ]]
                   IN  /\ parts' = ps
                       /\ coll' = IF coll["changedContracts"].state = "pending"
                                  THEN [coll EXCEPT !["changedContracts"] = ChangedJoin(ps)]
                                  ELSE coll
              ELSE /\ coll' = [coll EXCEPT ![CollOf(k)] =
                                 [ state |-> "resolved",
                                   events |-> ConvertAll(k, events),
                                   src |-> SeqMap(LogId, events) ]]
                   /\ UNCHANGED parts
    /\ UNCHANGED <<cidVars, head, rpc, rFrom, headReads, latest, failures, liveVars>>

\* A promise rejected with the error of the request that failed.
RejectedBy(request) ==
    [state |-> "rejected", events |-> <<>>, src |-> <<>>, error |-> request]

Rejected == RejectedBy("getPastEvents")

\* A rejection failing the whole ResyncUpdate.
RejectAll(c, k) == [n \in CollNames |-> Rejected]

\* A failed per-row query left out of changedContracts without a failure.
RejectCollSwallowed(c, k) ==
    IF k \in ChangedKinds THEN c ELSE [c EXCEPT ![CollOf(k)] = Rejected]

\* What the rejection of the query of kind k rejects: its own collection, or
\* for a Changed kind its fetchChanged promise and with it Promise.all.
RejectColl(c, k) == [c EXCEPT ![CollOf(k)] = Rejected]

\* One getPastEvents request fails (transport, or decoding of its records).
getPastEventsReject(k) ==
    /\ q[k].state = "sent"
    /\ Drained
    /\ failures < MaxFailures
    /\ failures' = failures + 1
    /\ q' = [q EXCEPT ![k].state = "rejected"]
    /\ parts' = IF k \in ChangedKinds THEN [parts EXCEPT ![k] = Rejected] ELSE parts
    /\ coll' = RejectColl(coll, k)
    /\ UNCHANGED <<cidVars, head, rpc, rFrom, headReads, latest, liveVars>>

\* A failed getBlockNumber() that rejects syncedToBlock and nothing else.
getBlockNumberRejectAlone ==
    /\ latest.state = "pending"
    /\ failures < MaxFailures
    /\ failures' = failures + 1
    /\ latest' = [state |-> "rejected", value |-> 0]
    /\ UNCHANGED <<cidVars, head, rpc, rFrom, headReads, q, parts, coll, liveVars>>

\* getBlockNumber() fails: every promise chained on latestBlockPromise
\* rejects without running its callback.
getBlockNumberReject ==
    /\ latest.state = "pending"
    /\ failures < MaxFailures
    /\ failures' = failures + 1
    /\ latest' = [state |-> "rejected", value |-> 0]
    /\ q' = [k \in EventEnum |-> [state |-> "skipped", options |-> <<>>]]
    /\ parts' = [k \in ChangedKinds |-> RejectedBy("getBlockNumber")]
    /\ coll' = [c \in CollNames |-> RejectedBy("getBlockNumber")]
    /\ UNCHANGED <<cidVars, head, rpc, rFrom, headReads, liveVars>>

-----------------------------------------------------------------------------
(* Live subscriptions: what the listeners pass to the caller's callbacks *)

\* onCreated: .on("data") and .on("changed").
onCreatedData(data) ==
    <<makeCreatedEvent(data.returnValues), BlockNum(data.blockNumber)>>

onCreatedChanged(data) == <<makeCreatedEvent(data.returnValues)>>

\* onCompleted, onCancelled, onBuyerRejected: the same two listeners each.
onOfferData(data) ==
    <<[offer |-> Get(data.returnValues, "offer")], BlockNum(data.blockNumber)>>

onOfferChanged(data) == <<[offer |-> Get(data.returnValues, "offer")]>>

\* onBought.
onBoughtData(data) ==
    << [ offer |-> Get(data.returnValues, "offer"),
         buyer |-> Get(data.returnValues, "buyer") ],
       BlockNum(data.blockNumber) >>

\* A "changed" listener of onBought that passes the offer alone.
onBoughtChangedOfferOnly(data) == <<[offer |-> Get(data.returnValues, "offer")]>>

onBoughtChanged(data) ==
    << [ offer |-> Get(data.returnValues, "offer"),
         buyer |-> Get(data.returnValues, "buyer") ] >>

\* The "data" listener reading the raw field under the normalized name.
onChangedDataObjField(row, data) ==
    << [f \in {"offer", row.objField} |->
           IF f = "offer" THEN Get(data.returnValues, "offer")
           ELSE Get(data.returnValues, row.objField)],
       BlockNum(data.blockNumber) >>

\* onChanged: the listeners of the stream opened for one CHANGE_MAPPING row.
onChangedData(row, data) ==
    << [f \in {"offer", row.objField} |->
           IF f = "offer" THEN Get(data.returnValues, "offer")
           ELSE Get(data.returnValues, row.ethField)],
       BlockNum(data.blockNumber) >>

onChangedChanged(row, data) ==
    << [f \in {"offer", row.objField} |->
           IF f = "offer" THEN Get(data.returnValues, "offer")
           ELSE Get(data.returnValues, row.ethField)] >>

\* Arguments that the "data" listener of a stream of kind k passes to callback.
DataArgs(k, data) ==
    CASE k = "Created"      -> onCreatedData(data)
      [] k = "Bought"       -> onBoughtData(data)
      [] k \in ChangedKinds -> onChangedData(CHANGE_MAPPING[RowOf(k)], data)
      [] OTHER              -> onOfferData(data)

\* A "changed" listener passing the block number as the "data" listener does.
ChangedArgsWithBlock(k, data) == DataArgs(k, data)

\* Arguments that the "changed" listener of a stream of kind k passes to onRevert.
ChangedArgs(k, data) ==
    CASE k = "Created"      -> onCreatedChanged(data)
      [] k = "Bought"       -> onBoughtChanged(data)
      [] k \in ChangedKinds -> onChangedChanged(CHANGE_MAPPING[RowOf(k)], data)
      [] OTHER              -> onOfferChanged(data)

\* Which caller callback each listener of a stream invokes.
ListenerTarget(tag) ==
    CASE tag = "data"    -> "callback"
      [] tag = "changed" -> "onRevert"
      [] OTHER           -> "onError"

\* makeCreatedEvent(offer, data) of the log-decoding revision.
makeCreatedEventLog(offer, data) ==
    [ offer     |-> offer,
      seller    |-> Get(data, "seller"),
      title     |-> Get(data, "title"),
      price     |-> Get(data, "price"),
      category  |-> Get(data, "category"),
      shipsFrom |-> Get(data, "shipsFrom") ]

-----------------------------------------------------------------------------
(* Live subscriptions: opening streams *)

\* Values the caller passes as fromBlock, and whether it passes onError.
SubFromBlocks == {NoBlock, BlockNum(1)}
OnErrorArgs == {"onError", "undefined"}

\* A subscribe operation with the default of resync() for fromBlock.
DefaultFromBlockGenesis(fromBlock) == IF fromBlock = NoBlock THEN Genesis ELSE fromBlock

\* The default parameters of the on<Kind> operations:
\* fromBlock = "latest" and onError = nopError.
DefaultFromBlock(fromBlock) == IF fromBlock = NoBlock THEN Latest ELSE fromBlock

DefaultOnError(onError) == IF onError = "undefined" THEN "nopError" ELSE onError

\* The stream that registryContract.events[event]({fromBlock}) opens, with
\* its listeners attached.  given holds the arguments of the call and
\* openedAt the head when it was made; the operations of the registry-based
\* revision fill in their defaults.  A stream from "latest", or without a
\* fromBlock, reports the blocks that arrive after it was opened; lower is
\* the first block it reports; trace is what the source emitted on it and
\* what the listener did with it.
NewStream(event, fromBlock, onError, rev) ==
    [ event     |-> event,
      rev       |-> rev,
      given     |-> [fromBlock |-> fromBlock, onError |-> onError],
      openedAt  |-> head,
      fromBlock |-> IF rev = "registry" THEN DefaultFromBlock(fromBlock) ELSE fromBlock,
      lower     |-> LET fb == IF rev = "registry" THEN DefaultFromBlock(fromBlock)
                              ELSE fromBlock
                    IN  IF fb.tag \in {"latest", "undefined"} THEN head + 1
                        ELSE LowerBound(fb),
      onError   |-> IF rev = "registry" THEN DefaultOnError(onError) ELSE onError,
      active    |-> TRUE,
      releases  |-> 0,
      trace     |-> <<>> ]

\* new SimpleEventSubscription(subscription); returned tells whether the
\* caller holds the object.
SimpleHandle(streamId, returned) ==
    [type |-> "simple", subscription |-> streamId, subscriptions |-> <<>>,
     isNull |-> FALSE, returned |-> returned, calls |-> 0]

\* new CombinedEventSubscription(subscriptions).
CombinedHandle(children) ==
    [type |-> "combined", subscription |-> 0, subscriptions |-> children,
     isNull |-> FALSE, returned |-> TRUE, calls |-> 0]

\* The caller opens one subscription: it holds no handle yet.
CanSubscribe == \A h \in DOMAIN handles : ~handles[h].returned

\* onCreated, onCompleted, onCancelled, onBought, onBuyerRejected.
onSimple(k, fromBlock, onError) ==
    /\ CanSubscribe
    /\ streams' = Append(streams, NewStream(k, fromBlock, onError, "registry"))
    /\ handles' = Append(handles, SimpleHandle(Len(streams) + 1, TRUE))
    /\ UNCHANGED <<cidVars, head, probe, resyncVars>>

\* onChanged over the four rows of the log-decoding revision, which has no
\* row for the attached files.
onChangedFourRows(fromBlock, onError) ==
    /\ CanSubscribe
    /\ LET n  == Len(CHANGE_MAPPING) - 1
           ns == [i \in 1..n |->
                    NewStream(CHANGE_MAPPING[i].event, fromBlock, onError, "registry")]
           hs == [i \in 1..n |-> SimpleHandle(Len(streams) + i, FALSE)]
       IN  /\ streams' = streams \o ns
           /\ handles' = (handles \o hs)
                            \o <<CombinedHandle([i \in 1..n |-> Len(handles) + i])>>
    /\ UNCHANGED <<cidVars, head, probe, resyncVars>>

\* onChanged: one stream and one SimpleEventSubscription per CHANGE_MAPPING
\* row, all wrapped in one CombinedEventSubscription.
onChanged(fromBlock, onError) ==
    /\ CanSubscribe
    /\ LET n  == Len(CHANGE_MAPPING)
           ns == [i \in 1..n |->
                    NewStream(CHANGE_MAPPING[i].event, fromBlock, onError, "registry")]
           hs == [i \in 1..n |-> SimpleHandle(Len(streams) + i, FALSE)]
       IN  /\ streams' = streams \o ns
           /\ handles' = (handles \o hs)
                            \o <<CombinedHandle([i \in 1..n |-> Len(handles) + i])>>
    /\ UNCHANGED <<cidVars, head, probe, resyncVars>>

\* onCreated of the log-decoding revision: web3.eth.subscribe('logs', ...)
\* with the decoding done in the listeners; the error listener is attached
\* only when the caller passes onError.
onCreatedLog(fromBlock, onError) ==
    /\ CanSubscribe
    /\ streams' = Append(streams, NewStream("Created", fromBlock,
                            IF onError = "onError" THEN "onError" ELSE "none", "log"))
    /\ handles' = Append(handles, SimpleHandle(Len(streams) + 1, TRUE))
    /\ UNCHANGED <<cidVars, head, probe, resyncVars>>

-----------------------------------------------------------------------------
(* Live subscriptions: the source emits, the listeners run *)

NoLog == <<0, 0>>

\* Number of records the source has emitted on all streams.
RECURSIVE SumTraces(_, _)
SumTraces(st, n) == IF n = 0 THEN 0 ELSE Len(st[n].trace) + SumTraces(st, n - 1)

Emissions == SumTraces(streams, Len(streams))

\* Logs that stream s was sent with the given tag.
Emitted(s, tag) ==
    {streams[s].trace[i].log :
        i \in {j \in DOMAIN streams[s].trace : streams[s].trace[j].tag = tag}}

\* A stream opened on every event of the registry instead of the one named.
StreamLogsAllEvents(s) ==
    LET Match(l) == l.blockNumber >= streams[s].lower
    IN  SelectSeq(LedgerLogs(head), Match)

\* Logs of the ledger that stream s reports: its kind, from its first block.
StreamLogs(s) ==
    LET Match(l) == l.event = streams[s].event /\ l.blockNumber >= streams[s].lower
    IN  SelectSeq(LedgerLogs(head), Match)

\* The "data" listener of a registry stream of kind k.
DataListener(k, data) == [fn |-> "callback", args |-> DataArgs(k, data)]

\* A "changed" listener that calls the forward callback.
ChangedListenerForward(k, data) == [fn |-> "callback", args |-> ChangedArgs(k, data)]

\* The "changed" listener of a registry stream of kind k.
ChangedListener(k, data) == [fn |-> "onRevert", args |-> ChangedArgs(k, data)]

\* The "error" listener: onError(error.name, error.message), onError being
\* the caller's function or the default nopError.
ErrorListener(onError) ==
    [fn |-> onError, args |-> << <<"error.name", 0>>, <<"error.message", 0>> >>]

\* One record of a trace: what was emitted and the call the listener made.
Entry(tag, logId, call) ==
    [tag |-> tag, log |-> logId, fn |-> call.fn, args |-> call.args]

\* The source emits the next confirmed log of the stream as "data".
EmitData(s) ==
    /\ streams[s].active /\ streams[s].rev = "registry"
    /\ Emissions < MaxEmit
    /\ LET todo == SelectSeq(StreamLogs(s), LAMBDA l : LogId(l) \notin Emitted(s, "data"))
       IN  /\ todo # <<>>
           /\ streams' = [streams EXCEPT ![s].trace =
                  Append(@, Entry("data", LogId(todo[1]),
                                  DataListener(streams[s].event, todo[1])))]
    /\ UNCHANGED <<cidVars, head, probe, resyncVars, handles>>

\* A reorganization retracts a log of the stream: the source emits it as
\* "changed", once per log, whether or not it was emitted as "data" before.
EmitChanged(s) ==
    /\ streams[s].active /\ streams[s].rev = "registry"
    /\ Emissions < MaxEmit
    /\ \E i \in DOMAIN StreamLogs(s) :
         LET l == StreamLogs(s)[i]
         IN  /\ LogId(l) \notin Emitted(s, "changed")
             /\ streams' = [streams EXCEPT ![s].trace =
                    Append(@, Entry("changed", LogId(l),
                                    ChangedListener(streams[s].event, l)))]
    /\ UNCHANGED <<cidVars, head, probe, resyncVars, handles>>

\* An "error" listener that closes its stream.
AfterErrorClosing(st) == [st EXCEPT !.active = FALSE]

\* What running the "error" listener does to the stream it is attached to.
AfterError(st) == st

\* The source emits "error" on a stream (a transport error, or a record the
\* contract binding could not decode).
EmitError(s) ==
    /\ streams[s].active
    /\ Emissions < MaxEmit
    /\ failures < MaxFailures
    /\ failures' = failures + 1
    /\ LET call == IF streams[s].onError = "none"
                   THEN [fn |-> "none", args |-> <<>>]
                   ELSE ErrorListener(streams[s].onError)
           st   == [streams[s] EXCEPT !.trace = Append(@, Entry("error", NoLog, call))]
       IN  streams' = [streams EXCEPT ![s] = AfterError(st)]
    /\ UNCHANGED <<cidVars, head, probe, rpc, rFrom, headReads, latest, q, parts, coll, handles>>

\* The listeners of the log-decoding onCreated: decodeLog, then the callback
\* with makeCreatedEvent(data.address, event).  decodeLog throws on a record
\* that does not match the Created inputs, and nothing in the listener
\* catches it.
LogListener(tag, data, decodable) ==
    IF decodable
    THEN [ fn   |-> ListenerTarget(tag),
           args |-> <<makeCreatedEventLog(Get(data.returnValues, "offer"),
                                          data.returnValues)>> ]
    ELSE [fn |-> "throw", args |-> <<>>]

\* The source emits a raw log on the 'logs' subscription of the log-decoding
\* onCreated, as "data" or as "changed"; its payload may be undecodable.
EmitRaw(s, tag, decodable) ==
    /\ streams[s].active /\ streams[s].rev = "log"
    /\ Emissions < MaxEmit
    /\ \E i \in DOMAIN StreamLogs(s) :
         LET l == StreamLogs(s)[i]
         IN  /\ LogId(l) \notin Emitted(s, tag)
             /\ streams' = [streams EXCEPT ![s].trace =
                    Append(@, [Entry(tag, LogId(l), LogListener(tag, l, decodable))
                                  EXCEPT !.tag = IF decodable THEN tag ELSE "undecodable"])]
    /\ UNCHANGED <<cidVars, head, probe, resyncVars, handles>>

-----------------------------------------------------------------------------
(* EventSubscription.unsubscribe() *)

\* unsubscribe() that drops the reference without releasing the stream.
SimpleUnsubscribeKeepStream(st, hs, h) ==
    [ streams |-> st,
      handles |-> [hs EXCEPT ![h].calls = @ + 1, ![h].isNull = TRUE] ]

\* unsubscribe() without the null test: every call releases the stream.
SimpleUnsubscribeNoTest(st, hs, h) ==
    [ streams |-> [st EXCEPT ![hs[h].subscription].active = FALSE,
                             ![hs[h].subscription].releases = @ + 1],
      handles |-> [hs EXCEPT ![h].calls = @ + 1, ![h].isNull = TRUE] ]

\* SimpleEventSubscription.unsubscribe() on handle h, given the streams and
\* handles so far: if the reference is not null, releases the stream and
\* drops the reference.  calls counts the calls made on the handle.
SimpleUnsubscribe(st, hs, h) ==
    IF ~hs[h].isNull
    THEN [ streams |-> [st EXCEPT ![hs[h].subscription].active = FALSE,
                                  ![hs[h].subscription].releases = @ + 1],
           handles |-> [hs EXCEPT ![h].calls = @ + 1, ![h].isNull = TRUE] ]
    ELSE [streams |-> st, handles |-> [hs EXCEPT ![h].calls = @ + 1]]

\* The loop leaving after its first child.
UnsubscribeFirst(st, hs, children) ==
    IF children = <<>> THEN [streams |-> st, handles |-> hs]
    ELSE SimpleUnsubscribe(st, hs, Head(children))

\* The for loop of CombinedEventSubscription.unsubscribe() over its children.
RECURSIVE UnsubscribeAll(_, _, _)
UnsubscribeAll(st, hs, children) ==
    IF children = <<>> THEN [streams |-> st, handles |-> hs]
    ELSE LET r == SimpleUnsubscribe(st, hs, Head(children))
         IN  UnsubscribeAll(r.streams, r.handles, Tail(children))

\* A combined unsubscribe() that releases the streams of its children
\* itself, without going through the children.
CombinedUnsubscribeDirect(st, hs, h) ==
    IF ~hs[h].isNull
    THEN LET owned == {hs[hs[h].subscriptions[i]].subscription :
                          i \in DOMAIN hs[h].subscriptions}
         IN  [ streams |-> [s \in DOMAIN st |->
                              IF s \in owned
                              THEN [st[s] EXCEPT !.active = FALSE, !.releases = @ + 1]
                              ELSE st[s]],
               handles |-> [hs EXCEPT ![h].calls = @ + 1, ![h].isNull = TRUE] ]
    ELSE [streams |-> st, handles |-> [hs EXCEPT ![h].calls = @ + 1]]

\* CombinedEventSubscription.unsubscribe() on handle h.
CombinedUnsubscribe(st, hs, h) ==
    IF ~hs[h].isNull
    THEN LET u == UnsubscribeAll(st, hs, hs[h].subscriptions)
         IN  [ streams |-> u.streams,
               handles |-> [u.handles EXCEPT ![h].calls = @ + 1, ![h].isNull = TRUE] ]
    ELSE [streams |-> st, handles |-> [hs EXCEPT ![h].calls = @ + 1]]

\* SimpleEventSubscription.unsubscribe() whose call of the release raises:
\* the release was called, the assignment of null is not reached.
SimpleUnsubscribeRaise(st, hs, h) ==
    [ streams |-> [st EXCEPT ![hs[h].subscription].releases = @ + 1],
      handles |-> [hs EXCEPT ![h].calls = @ + 1] ]

\* A combined unsubscribe() that drops its list even when a child raises.
CombinedUnsubscribeRaiseCleared(st, hs, h, i) ==
    LET cs == hs[h].subscriptions
        u  == UnsubscribeAll(st, hs, SubSeq(cs, 1, i - 1))
        r  == SimpleUnsubscribeRaise(u.streams, u.handles, cs[i])
    IN  [ streams |-> r.streams,
          handles |-> [r.handles EXCEPT ![h].calls = @ + 1, ![h].isNull = TRUE] ]

\* CombinedEventSubscription.unsubscribe() on handle h when the unsubscribe()
\* of its i-th child raises: the loop is left by the exception, and the
\* assignment of null after the loop is not reached.
CombinedUnsubscribeRaise(st, hs, h, i) ==
    LET cs == hs[h].subscriptions
        u  == UnsubscribeAll(st, hs, SubSeq(cs, 1, i - 1))
        r  == SimpleUnsubscribeRaise(u.streams, u.handles, cs[i])
    IN  [ streams |-> r.streams,
          handles |-> [r.handles EXCEPT ![h].calls = @ + 1] ]

\* The caller calls unsubscribe() on a composite it holds and the release
\* of the stream of the i-th child raises.
unsubscribeRaise(h, i) ==
    /\ handles[h].returned /\ handles[h].type = "combined"
    /\ handles[h].calls < MaxCalls
    /\ ~handles[h].isNull
    /\ i \in DOMAIN handles[h].subscriptions
    /\ ~handles[handles[h].subscriptions[i]].isNull
    /\ failures < MaxFailures
    /\ failures' = failures + 1
    /\ LET r == CombinedUnsubscribeRaise(streams, handles, h, i)
       IN  /\ streams' = r.streams
           /\ handles' = r.handles
    /\ UNCHANGED <<cidVars, head, probe, rpc, rFrom, headReads, latest, q, parts, coll>>

\* The caller calls unsubscribe() on a handle it holds, for the first time
\* or again.
unsubscribe(h) ==
    /\ handles[h].returned
    /\ handles[h].calls < MaxCalls
    /\ LET r == IF handles[h].type = "simple"
                THEN SimpleUnsubscribe(streams, handles, h)
                ELSE CombinedUnsubscribe(streams, handles, h)
       IN  /\ streams' = r.streams
           /\ handles' = r.handles
    /\ UNCHANGED <<cidVars, head, probe, resyncVars>>

\* Handles composed by the caller: the classes are exported, so the caller
\* may wrap simple handles it holds in composites of its own.

\* onCompleted or onCancelled, each called once.
onSimpleOnce(k) ==
    /\ k \in {"Completed", "Cancelled"}
    /\ \A s \in DOMAIN streams : streams[s].event # k
    /\ streams' = Append(streams, NewStream(k, NoBlock, "undefined", "registry"))
    /\ handles' = Append(handles, SimpleHandle(Len(streams) + 1, TRUE))
    /\ UNCHANGED <<cidVars, head, probe, resyncVars>>

\* The simple handles the caller holds.
HeldSimple == {h \in DOMAIN handles : handles[h].type = "simple" /\ handles[h].returned}

\* new CombinedEventSubscription([a, b]) over two simple handles the caller
\* holds, each list of children composed once.
newCombined(children) ==
    /\ children \in HeldSimple \X HeldSimple
    /\ children[1] # children[2]
    /\ \A h \in DOMAIN handles : handles[h].subscriptions # children
    /\ handles' = Append(handles, CombinedHandle(children))
    /\ UNCHANGED <<cidVars, head, probe, resyncVars, streams>>

-----------------------------------------------------------------------------
(* findCid(): the offers, the history of their attached files, the call *)

\* Content identifiers, and the attachedFiles of an offer created without any.
Cids == { <<"cid", 1>>, <<"cid", 2>> }
NoCid == <<"cid", 0>>

\* enum Status: the values currentStatus() returns.
WAITING_BUYER == "0"
PENDING_CONFIRMATION == "1"
COMPLETED == "2"
CANCELLED == "3"

\* The status changes an offer contract goes through.
StatusAfter(status) ==
    CASE status = WAITING_BUYER        -> {PENDING_CONFIRMATION, CANCELLED}
      [] status = PENDING_CONFIRMATION -> {COMPLETED, WAITING_BUYER}
      [] OTHER                         -> {}

\* Number of AttachedFilesChanged logs of block b.
AfLogsIn(b) == Cardinality({i \in DOMAIN afLogs : afLogs[i].blockNumber = b})

\* A transaction goes into a new block or into the latest one.
CanMine(newBlock) ==
    /\ cidCall.state = "idle"
    /\ IF newBlock THEN head < MaxHeight
       ELSE head >= 1 /\ AfLogsIn(head) < LogsPerBlock

\* A seller replaces the attached files of an offer: the offer contract
\* stores the identifier and the registry logs AttachedFilesChanged.
setAttachedFiles(offer, cid, newBlock) ==
    /\ CanMine(newBlock)
    /\ Len(afLogs) < MaxAfLogs
    /\ LET b == IF newBlock THEN head + 1 ELSE head
       IN  /\ head' = b
           /\ afLogs' = Append(afLogs,
                  [ event        |-> "AttachedFilesChanged",
                    blockNumber  |-> b,
                    logIndex     |-> AfLogsIn(b) + 1,
                    returnValues |-> [offer |-> offer, newCID |-> cid] ])
    /\ offerState' = [offerState EXCEPT ![offer].attachedFiles = cid]
    /\ UNCHANGED <<resyncVars, liveVars, cidCall>>

\* An offer changes status (bought, confirmed, rejected, cancelled).
setStatus(offer, status, newBlock) ==
    /\ CanMine(newBlock)
    /\ status \in StatusAfter(offerState[offer].currentStatus)
    /\ head' = IF newBlock THEN head + 1 ELSE head
    /\ offerState' = [offerState EXCEPT ![offer].currentStatus = status]
    /\ UNCHANGED <<resyncVars, liveVars, afLogs, cidCall>>

\* A query that names genesis as its lower bound.
CidQueryOptionsFromGenesis(cid) ==
    [fromBlock |-> Genesis, toBlock |-> NoBlock, filter |-> cid]

\* The options findCid passes to getPastEvents: a filter on newCID and no
\* block bound.
CidQueryOptions(cid) == [fromBlock |-> NoBlock, toBlock |-> NoBlock, filter |-> cid]

\* What the node answers to getPastEvents(AttachedFilesChanged, options).
getPastAttachedFiles(options) ==
    LET Match(l) == l.returnValues.newCID = options.filter /\ InRange(l, options)
    IN  SelectSeq(afLogs, Match)

NoCall ==
    [ state |-> "idle", cid |-> NoCid, events |-> <<>>, i |-> 0,
      existed |-> FALSE, statusSet |-> {}, currentAF |-> NoCid,
      result |-> <<"none", {}>> ]

\* findCid(cid): the getPastEvents request goes out.
findCid(cid) ==
    /\ cidCall.state = "idle"
    /\ cidCall' = [cidCall EXCEPT !.state = "querying", !.cid = cid]
    /\ UNCHANGED <<head, resyncVars, liveVars, offerState, afLogs>>

\* await events: the node answers and the loop starts.
findCidEvents ==
    /\ cidCall.state = "querying"
    /\ cidCall' = [cidCall EXCEPT
           !.state = "looping",
           !.events = getPastAttachedFiles(CidQueryOptions(cidCall.cid)),
           !.i = 1]
    /\ UNCHANGED <<head, resyncVars, liveVars, offerState, afLogs>>

\* A turn of the loop that keeps the status of the last record only.
findCidVisitLastWins ==
    /\ cidCall.state = "looping"
    /\ cidCall.i <= Len(cidCall.events)
    /\ LET offer     == cidCall.events[cidCall.i].returnValues.offer
           currentAF == offerState[offer].attachedFiles
           status    == offerState[offer].currentStatus
       IN  cidCall' = [cidCall EXCEPT
               !.existed = TRUE,
               !.statusSet = IF currentAF = cidCall.cid THEN {status} ELSE {},
               !.i = @ + 1]
    /\ UNCHANGED <<head, resyncVars, liveVars, offerState, afLogs>>

\* One turn of the loop: reads attachedFiles and currentStatus of the offer
\* of the record, and keeps the status if the identifier is still attached.
findCidVisit ==
    /\ cidCall.state = "looping"
    /\ cidCall.i <= Len(cidCall.events)
    /\ LET offer     == cidCall.events[cidCall.i].returnValues.offer
           currentAF == offerState[offer].attachedFiles
           status    == offerState[offer].currentStatus
       IN  cidCall' = [cidCall EXCEPT
               !.existed = TRUE,
               !.statusSet = IF currentAF = cidCall.cid THEN @ \cup {status} ELSE @,
               !.i = @ + 1]
    /\ UNCHANGED <<head, resyncVars, liveVars, offerState, afLogs>>

\* The three returns of findCid.
CidResult(existed, statusSet) ==
    IF ~existed THEN <<"NOT_FOUND", {}>>
    ELSE IF statusSet = {} THEN <<"GONE", {}>>
    ELSE <<"FOUND", statusSet>>

findCidReturn ==
    /\ cidCall.state = "looping"
    /\ cidCall.i > Len(cidCall.events)
    /\ cidCall' = [cidCall EXCEPT
           !.state = "done",
           !.result = CidResult(cidCall.existed, cidCall.statusSet)]
    /\ UNCHANGED <<head, resyncVars, liveVars, offerState, afLogs>>

\* findCid() on a chain that goes on while the call runs: the two reads of
\* a turn of the loop are two requests, each answered from the state of the
\* chain when the node gets to it.

\* The triples <<offer, attachedFiles, currentStatus>> that have held on
\* the chain so far.
Seen ==
    IF probe.kind = "history" THEN probe.seen
    ELSE { <<o, NoCid, WAITING_BUYER>> : o \in Range(Offers) }

\* A seller replaces the attached files of an offer, at any moment.
transactAttachedFiles(offer, cid, newBlock) ==
    /\ IF newBlock THEN head < MaxHeight
       ELSE head >= 1 /\ AfLogsIn(head) < LogsPerBlock
    /\ Len(afLogs) < MaxRaceLogs
    /\ LET b == IF newBlock THEN head + 1 ELSE head
       IN  /\ head' = b
           /\ afLogs' = Append(afLogs,
                  [ event        |-> "AttachedFilesChanged",
                    blockNumber  |-> b,
                    logIndex     |-> AfLogsIn(b) + 1,
                    returnValues |-> [offer |-> offer, newCID |-> cid] ])
    /\ offerState' = [offerState EXCEPT ![offer].attachedFiles = cid]
    /\ probe' = [kind |-> "history",
                 seen |-> Seen \cup {<<offer, cid, offerState[offer].currentStatus>>}]
    /\ UNCHANGED <<resyncVars, streams, handles, cidCall>>

\* An offer changes status, at any moment.
transactStatus(offer, status) ==
    /\ status \in StatusAfter(offerState[offer].currentStatus)
    /\ offerState' = [offerState EXCEPT ![offer].currentStatus = status]
    /\ probe' = [kind |-> "history",
                 seen |-> Seen \cup {<<offer, offerState[offer].attachedFiles, status>>}]
    /\ UNCHANGED <<head, resyncVars, streams, handles, afLogs, cidCall>>

\* The node answers attachedFiles().call() of the turn.
findCidReadAF ==
    /\ cidCall.state = "looping"
    /\ cidCall.i <= Len(cidCall.events)
    /\ LET offer == cidCall.events[cidCall.i].returnValues.offer
       IN  cidCall' = [cidCall EXCEPT
               !.state = "reading",
               !.existed = TRUE,
               !.currentAF = offerState[offer].attachedFiles]
    /\ UNCHANGED <<head, resyncVars, liveVars, offerState, afLogs>>

\* The node answers currentStatus().call() of the turn; the loop compares
\* the attachedFiles it read with cid and keeps the status.
findCidReadStatus ==
    /\ cidCall.state = "reading"
    /\ LET offer  == cidCall.events[cidCall.i].returnValues.offer
           status == offerState[offer].currentStatus
       IN  cidCall' = [cidCall EXCEPT
               !.state = "looping",
               !.statusSet = IF cidCall.currentAF = cidCall.cid
                             THEN @ \cup {status} ELSE @,
               !.i = @ + 1]
    /\ UNCHANGED <<head, resyncVars, liveVars, offerState, afLogs>>

\* The registry-based revision whose findCid returns a bare CidSearchResult.

\* contract.methods.attachedFiles().call() is a Promise of the identifier;
\* the revision does not await it.
CallPromise(value) == <<"Promise", value[2]>>

\* findCid(cid): the getPastEvents request goes out, with a filter on newCID
\* and no block bound.
findCidBare(cid) ==
    /\ cidCall.state = "idle"
    /\ cidCall' = [cidCall EXCEPT !.state = "bare querying", !.cid = cid]
    /\ UNCHANGED <<head, resyncVars, liveVars, offerState, afLogs>>

\* await events: the node answers and the loop starts.
findCidBareEvents ==
    /\ cidCall.state = "bare querying"
    /\ cidCall' = [cidCall EXCEPT
           !.state = "bare looping",
           !.events = getPastAttachedFiles(CidQueryOptions(cidCall.cid)),
           !.i = 1]
    /\ UNCHANGED <<head, resyncVars, liveVars, offerState, afLogs>>

\* One turn of the loop: existed = true, then currentAF === cid with
\* currentAF the Promise that call() returned; FOUND is returned if they
\* are identical.
findCidBareVisit ==
    /\ cidCall.state = "bare looping"
    /\ cidCall.i <= Len(cidCall.events)
    /\ LET offer     == cidCall.events[cidCall.i].returnValues.offer
           currentAF == CallPromise(offerState[offer].attachedFiles)
       IN  cidCall' = IF currentAF = cidCall.cid
                      THEN [cidCall EXCEPT !.existed = TRUE,
                                           !.state = "bare done",
                                           !.result = <<"FOUND", {}>>]
                      ELSE [cidCall EXCEPT !.existed = TRUE, !.i = @ + 1]
    /\ UNCHANGED <<head, resyncVars, liveVars, offerState, afLogs>>

\* After the loop: GONE if a record existed, NOT_FOUND otherwise.
findCidBareReturn ==
    /\ cidCall.state = "bare looping"
    /\ cidCall.i > Len(cidCall.events)
    /\ cidCall' = [cidCall EXCEPT
           !.state = "bare done",
           !.result = IF cidCall.existed THEN <<"GONE", {}>> ELSE <<"NOT_FOUND", {}>>]
    /\ UNCHANGED <<head, resyncVars, liveVars, offerState, afLogs>>

InitCid ==
    /\ offerState = [o \in Range(Offers) |->
                        [attachedFiles |-> NoCid, currentStatus |-> WAITING_BUYER]]
    /\ afLogs = <<>>
    /\ cidCall = NoCall

-----------------------------------------------------------------------------
(* MAPPERS: the conversions of the raw values of the blockchain *)

\* A JavaScript value: its typeof and its text.
Str(text) == [type |-> "string", text |-> text]
Num(text) == [type |-> "number", text |-> text]

\* Raw values handed to a mapper: strings (plain, hexadecimal, every status
\* key and value, near misses of them), numbers (the status values and
\* others), and values of other types.  The text of a number is what its
\* toString() gives.
RawValues ==
    { Str("0x6162"),
      Str("WAITING_BUYER"), Str("PENDING_CONFIRMATION"),
      Str("COMPLETED"), Str("CANCELLED"),
      Str("0"), Str("1"), Str("2"), Str("3"),
      Str("completed"), Str("4"), Str("02"), Str(""),
      Num("0"), Num("1"), Num("2"), Num("3"),
      Num("7"), Num("-1"), Num("2.5"), Num("NaN"),
      [type |-> "undefined", text |-> "undefined"],
      [type |-> "object", text |-> "[object Object]"] }

\* The outcome of a call: the value returned, or the Error thrown.
Returned(value) == [ok |-> TRUE, value |-> value]
Thrown(message) == [ok |-> FALSE, value |-> [type |-> "Error", text |-> message]]

castOrDie(bdata) ==
    IF bdata.type = "string" THEN Returned(bdata)
    ELSE Thrown("Unexpected type; expecting string from blockchain")

\* Web3.utils.hexToUtf8 and hexToAscii on the hexadecimal strings of
\* RawValues; the strings that start with "0x" are its domain.
HexDecoded == ("0x6162" :> "ab")

cvtToUtf8(bdata) ==
    LET sdata == castOrDie(bdata)
    IN  IF ~sdata.ok THEN sdata
        ELSE IF sdata.value.text \in DOMAIN HexDecoded
             THEN Returned(Str(HexDecoded[sdata.value.text]))
             ELSE sdata

cvtToAscii(bdata) ==
    LET sdata == castOrDie(bdata)
    IN  IF ~sdata.ok THEN sdata
        ELSE IF sdata.value.text \in DOMAIN HexDecoded
             THEN Returned(Str(HexDecoded[sdata.value.text]))
             ELSE sdata

\* enum OfferStatus: keys and values.
OfferStatus ==
    [ WAITING_BUYER        |-> WAITING_BUYER,
      PENDING_CONFIRMATION |-> PENDING_CONFIRMATION,
      COMPLETED            |-> COMPLETED,
      CANCELLED            |-> CANCELLED ]

\* A cvtToStatus that returns the key it matched.
cvtToStatusKey(bdata) ==
    IF bdata.type \in {"string", "number"}
    THEN LET keys == {key \in DOMAIN OfferStatus :
                         bdata.text = key \/ bdata.text = OfferStatus[key]}
         IN  IF keys # {}
             THEN Returned(Str(CHOOSE key \in keys : TRUE))
             ELSE Thrown("Unexpected OfferStatus value")
    ELSE Thrown("Unexpected type; expecting string or number from blockchain")

\* cvtToStatus: a string that is a key or a value of the enum gives the
\* value; a number is converted by toString() first; any other type throws.
cvtToStatus(bdata) ==
    IF bdata.type \in {"string", "number"}
    THEN LET keys == {key \in DOMAIN OfferStatus :
                         bdata.text = key \/ bdata.text = OfferStatus[key]}
         IN  IF keys # {}
             THEN Returned(Str(OfferStatus[CHOOSE key \in keys : TRUE]))
             ELSE Thrown("Unexpected OfferStatus value")
    ELSE Thrown("Unexpected type; expecting string or number from blockchain")

MapperFields ==
    { "offer", "seller", "title", "price", "category", "shipsFrom",
      "attachedFiles", "buyer", "status" }

\* MAPPERS[field](x).
MAPPERS(field, x) ==
    CASE field = "offer"         -> Returned(x)
      [] field = "seller"        -> castOrDie(x)
      [] field = "title"         -> castOrDie(x)
      [] field = "price"         -> castOrDie(x)
      [] field = "category"      -> cvtToUtf8(x)
      [] field = "shipsFrom"     -> cvtToAscii(x)
      [] field = "attachedFiles" -> cvtToAscii(x)
      [] field = "buyer"         -> castOrDie(x)
      [] field = "status"        -> cvtToStatus(x)

\* Number of mapper calls made so far.
Mapped == IF probe.kind = "mapper" THEN probe.n ELSE 0

\* A mapper is called on a raw value.
ApplyMapper(field, raw) ==
    /\ probe.kind \in {"none", "mapper"}
    /\ Mapped < MaxMapped
    /\ probe' = [ kind |-> "mapper", field |-> field, raw |-> raw,
                  result |-> MAPPERS(field, raw), n |-> Mapped + 1 ]
    /\ UNCHANGED <<cidVars, head, resyncVars, streams, handles>>

-----------------------------------------------------------------------------
(* Specification of the historical resync *)

InitLedger == head = 0

InitResync ==
    /\ rpc = "idle"
    /\ rFrom = [given |-> NoBlock, value |-> NoBlock]
    /\ headReads = 0
    /\ latest = [state |-> "none", value |-> 0]
    /\ q = [k \in EventEnum |-> [state |-> "none", options |-> <<>>]]
    /\ parts = [k \in ChangedKinds |-> Pending]
    /\ coll = [c \in CollNames |-> Pending]
    /\ failures = 0

InitLive ==
    /\ streams = <<>>
    /\ handles = <<>>

\* No batch drawn yet.
NoBatch == [kind |-> "none", events |-> <<>>, applied |-> {},
            hist |-> <<>>, forward |-> <<>>, revert |-> <<>>]

InitProbe == probe = NoBatch

Init == InitLedger /\ InitResync /\ InitLive /\ InitProbe /\ InitCid

\* resync() on a growing ledger, every request answered.
Next ==
    \/ AppendBlock
    \/ \E f \in FromBlocks : resync(f)
    \/ getBlockNumberResolve
    \/ \E k \in EventEnum : runQuery(k)
    \/ \E k \in EventEnum : getPastEventsResolve(k)

Spec == Init /\ [][Next]_vars

\* resync() with failing requests, on a ledger that grows before the call.
AppendBlockBefore == rpc = "idle" /\ AppendBlock

NextFail ==
    \/ AppendBlockBefore
    \/ \E f \in FromBlocks : resync(f)
    \/ getBlockNumberResolve
    \/ getBlockNumberReject
    \/ \E k \in EventEnum : runQuery(k)
    \/ \E k \in EventEnum : getPastEventsResolve(k)
    \/ \E k \in EventEnum : getPastEventsReject(k)

SpecFail == Init /\ [][NextFail]_vars

\* Live subscriptions on a growing ledger.
NextLive ==
    \/ AppendBlock
    \/ \E k \in Range(SimpleKinds), f \in SubFromBlocks, e \in OnErrorArgs : onSimple(k, f, e)
    \/ \E f \in SubFromBlocks, e \in OnErrorArgs : onChanged(f, e)
    \/ \E f \in SubFromBlocks, e \in OnErrorArgs : onCreatedLog(f, e)
    \/ \E s \in DOMAIN streams : EmitData(s)
    \/ \E s \in DOMAIN streams : EmitChanged(s)
    \/ \E s \in DOMAIN streams : EmitError(s)
    \/ \E s \in DOMAIN streams, tag \in {"data", "changed"}, d \in BOOLEAN : EmitRaw(s, tag, d)
    \/ \E h \in DOMAIN handles : unsubscribe(h)

SpecLive == Init /\ [][NextLive]_vars

-----------------------------------------------------------------------------
(* The conversions of both paths applied to one batch of raw logs *)

\* Raw logs of kind k as the node may report them: any place, any offer.
RawLogs(k) ==
    { [ event        |-> k,
        blockNumber  |-> b,
        logIndex     |-> j,
        returnValues |-> ReturnValues(k, o, (b - 1) * LogsPerBlock + (j - 1)) ] :
      b \in 1..MaxHeight, j \in 1..LogsPerBlock, o \in Range(Offers) }

\* Batches of one or two raw logs of kind k (the same log twice included).
Batches(k) ==
    { <<l>> : l \in RawLogs(k) } \cup { <<l, m>> : l \in RawLogs(k), m \in RawLogs(k) }

\* The node reports a batch of raw logs of one kind.
Report(k, events) ==
    /\ probe.kind = "none"
    /\ probe' = [NoBatch EXCEPT !.kind = k, !.events = events]
    /\ UNCHANGED <<cidVars, head, resyncVars, streams, handles>>

\* The historical path: the conversion resync() chains on the query.
ApplyHistorical ==
    /\ probe.kind # "none"
    /\ "hist" \notin probe.applied
    /\ probe' = [probe EXCEPT
           !.applied = @ \cup {"hist"},
           !.hist = IF probe.kind \in ChangedKinds
                    THEN fetchChanged(probe.kind, probe.events)
                    ELSE ConvertAll(probe.kind, probe.events)]
    /\ UNCHANGED <<cidVars, head, resyncVars, streams, handles>>

\* The live path, confirmations: the "data" listener, once per raw log.
ApplyData ==
    /\ probe.kind # "none"
    /\ "forward" \notin probe.applied
    /\ probe' = [probe EXCEPT
           !.applied = @ \cup {"forward"},
           !.forward = [i \in DOMAIN probe.events |->
                           DataListener(probe.kind, probe.events[i])]]
    /\ UNCHANGED <<cidVars, head, resyncVars, streams, handles>>

\* The live path, retractions: the "changed" listener, once per raw log.
ApplyChanged ==
    /\ probe.kind # "none"
    /\ "revert" \notin probe.applied
    /\ probe' = [probe EXCEPT
           !.applied = @ \cup {"revert"},
           !.revert = [i \in DOMAIN probe.events |->
                          ChangedListener(probe.kind, probe.events[i])]]
    /\ UNCHANGED <<cidVars, head, resyncVars, streams, handles>>

\* Simple handles, composites that share them, and unsubscribe() calls in
\* any order.
NextHandles ==
    \/ \E k \in Range(SimpleKinds) : onSimpleOnce(k)
    \/ \E a, b \in DOMAIN handles : newCombined(<<a, b>>)
    \/ \E h \in DOMAIN handles : unsubscribe(h)

SpecHandles == Init /\ [][NextHandles]_vars

\* The same, with releases that may raise.
NextRaise ==
    \/ \E k \in Range(SimpleKinds) : onSimpleOnce(k)
    \/ \E a, b \in DOMAIN handles : newCombined(<<a, b>>)
    \/ \E h \in DOMAIN handles : unsubscribe(h)
    \/ \E h \in DOMAIN handles, i \in 1..Len(handles) : unsubscribeRaise(h, i)

SpecRaise == Init /\ [][NextRaise]_vars

\* A history of Changed-family logs, any kinds and offers in any order,
\* and changedForResync() over the whole of it.
NoChain == [kind |-> "chain", logs |-> <<>>, joined |-> Pending]

Chain == IF probe.kind = "chain" THEN probe ELSE NoChain

\* A transaction changes a field of an offer: the registry logs the event
\* of the field in a new block or in the latest one.
LogChanged(k, offer, newBlock) ==
    /\ probe.kind \in {"none", "chain"}
    /\ Chain.joined.state = "pending"
    /\ Len(Chain.logs) < MaxChangedLogs
    /\ newBlock \/ Chain.logs # <<>>
    /\ LET n    == Len(Chain.logs)
           last == IF n = 0 THEN 0 ELSE Chain.logs[n].blockNumber
           b    == IF newBlock THEN last + 1 ELSE last
           j    == Cardinality({i \in 1..n : Chain.logs[i].blockNumber = b}) + 1
       IN  probe' = [Chain EXCEPT !.logs = Append(@,
                        [ event        |-> k,
                          blockNumber  |-> b,
                          logIndex     |-> j,
                          returnValues |-> ReturnValues(k, offer, n) ])]
    /\ UNCHANGED <<cidVars, head, resyncVars, streams, handles>>

\* changedForResync with every query answered: each row's query returns the
\* logs of its kind in the order of the chain.
changedForResync ==
    /\ probe.kind = "chain"
    /\ probe.joined.state = "pending"
    /\ LET Answer(k) == SelectSeq(probe.logs, LAMBDA l : l.event = k)
           ps == [k \in ChangedKinds |->
                    [ state  |-> "resolved",
                      events |-> fetchChanged(k, Answer(k)),
                      src    |-> SeqMap(LogId, Answer(k)) ]]
       IN  probe' = [probe EXCEPT !.joined = ChangedJoin(ps)]
    /\ UNCHANGED <<cidVars, head, resyncVars, streams, handles>>

NextJoin ==
    \/ \E k \in ChangedKinds, o \in Range(Offers), nb \in BOOLEAN : LogChanged(k, o, nb)
    \/ changedForResync

SpecJoin == Init /\ [][NextJoin]_vars

NextDecode ==
    \/ \E k \in EventEnum : \E events \in Batches(k) : Report(k, events)
    \/ ApplyHistorical
    \/ ApplyData
    \/ ApplyChanged

SpecDecode == Init /\ [][NextDecode]_vars

\* findCid() called once the offers have some history.
NextCid ==
    \/ \E o \in Range(Offers), c \in Cids, nb \in BOOLEAN : setAttachedFiles(o, c, nb)
    \/ \E o \in Range(Offers), nb \in BOOLEAN :
          \E st \in {WAITING_BUYER, PENDING_CONFIRMATION, COMPLETED, CANCELLED} :
              setStatus(o, st, nb)
    \/ \E c \in Cids : findCid(c)
    \/ findCidEvents
    \/ findCidVisit
    \/ findCidReturn

SpecCid == Init /\ [][NextCid]_vars

\* findCid() of the revision that returns a bare CidSearchResult.
NextCidBare ==
    \/ \E o \in Range(Offers), c \in Cids, b \in BOOLEAN : setAttachedFiles(o, c, b)
    \/ \E c \in Cids : findCidBare(c)
    \/ findCidBareEvents
    \/ findCidBareVisit
    \/ findCidBareReturn

SpecCidBare == Init /\ [][NextCidBare]_vars

\* findCid() while transactions go on.
NextCidRace ==
    \/ \E o \in Range(Offers), c \in Cids, nb \in BOOLEAN : transactAttachedFiles(o, c, nb)
    \/ \E o \in Range(Offers) :
          \E st \in {WAITING_BUYER, PENDING_CONFIRMATION, COMPLETED, CANCELLED} :
              transactStatus(o, st)
    \/ \E c \in Cids : findCid(c)
    \/ findCidEvents
    \/ findCidReadAF
    \/ findCidReadStatus
    \/ findCidReturn

SpecCidRace == Init /\ [][NextCidRace]_vars

\* The mappers applied to raw values.
NextMappers == \E field \in MapperFields, raw \in RawValues : ApplyMapper(field, raw)

SpecMappers == Init /\ [][NextMappers]_vars

\* The caller has awaited the promises of the ResyncUpdate and passes
\* syncedToBlock as fromBlock.
Awaited == syncedToBlock.state = "resolved" /\ \A c \in CollNames : coll[c].state = "resolved"

FromSynced == BlockNum(syncedToBlock.value)

\* resync() followed by a subscription seeded with syncedToBlock, blocks
\* arriving at any moment.
NextCompose ==
    \/ AppendBlock
    \/ \E f \in FromBlocks : resync(f)
    \/ getBlockNumberResolve
    \/ \E k \in EventEnum : runQuery(k)
    \/ \E k \in EventEnum : getPastEventsResolve(k)
    \/ \E k \in Range(SimpleKinds) :
          Awaited /\ onSimple(k, FromSynced, "undefined")
    \/ Awaited /\ onChanged(FromSynced, "undefined")
    \/ \E s \in DOMAIN streams : EmitData(s)

SpecCompose == Init /\ [][NextCompose]_vars

\* The node answers the requests in the order it received them.
InOrder(k) == \A i \in 1..(PosOf(k) - 1) : q[QueryOrder[i]].state = "resolved"

\* A subscription opened, used and released at any moment of a resync()
\* whose requests are answered in order.
NextInFlight ==
    \/ AppendBlock
    \/ \E f \in FromBlocks : resync(f)
    \/ getBlockNumberResolve
    \/ \E k \in EventEnum : runQuery(k)
    \/ \E k \in EventEnum : InOrder(k) /\ getPastEventsResolve(k)
    \/ \E f \in SubFromBlocks : onSimple("Cancelled", f, "undefined")
    \/ \E s \in DOMAIN streams : EmitData(s)
    \/ \E s \in DOMAIN streams : EmitChanged(s)
    \/ \E h \in DOMAIN handles : unsubscribe(h)

SpecInFlight == Init /\ [][NextInFlight]_vars

-----------------------------------------------------------------------------
(* Claims about resync() *)

Issued(k) == q[k].state \in {"sent", "resolved", "rejected"}

\* The raw log at a place of the ledger.
LogOf(id) == LogAt(id[1], id[2])

\* Places of the logs of the given kinds whose block lies between the
\* caller's fromBlock and the captured head height.
Snapshot(kinds) ==
    { LogId(l) : l \in { x \in Range(LedgerLogs(head)) :
                            /\ x.event \in kinds
                            /\ x.blockNumber >= LowerBound(rFrom.value)
                            /\ x.blockNumber <= syncedToBlock.value } }

KindsOf(c) == {k \in EventEnum : CollOf(k) = c}

\* The normalized event the specification prescribes for a raw log.
Normalized(l) ==
    LET rv == l.returnValues
    IN  CASE l.event = "Created" -> [f \in CreatedFields |-> rv[f]]
          [] l.event = "Bought" -> [f \in {"offer", "buyer"} |-> rv[f]]
          [] l.event = "TitleChanged" -> [offer |-> rv.offer, title |-> rv.newTitle]
          [] l.event = "PriceChanged" -> [offer |-> rv.offer, price |-> rv.newPrice]
          [] l.event = "CategoryChanged" -> [offer |-> rv.offer, category |-> rv.newCategory]
          [] l.event = "ShipsFromChanged" -> [offer |-> rv.offer, shipsFrom |-> rv.newShipsFrom]
          [] l.event = "AttachedFilesChanged" -> [offer |-> rv.offer, attachedFiles |-> rv.newCID]
          [] OTHER -> [offer |-> rv.offer]

\* C1: within one resync() call the head height is read exactly once, every
\* one of the ten queries is issued with that value as toBlock and the
\* caller's fromBlock as fromBlock, and syncedToBlock is that same value.
C1_OneHeadReadForAllQueries ==
    /\ rpc = "called" => headReads = 1
    /\ \A k \in EventEnum :
          Issued(k) =>
              /\ q[k].options.toBlock = BlockNum(syncedToBlock.value)
              /\ q[k].options.fromBlock = rFrom.value
    /\ (rpc = "called" /\ syncedToBlock.state = "resolved" /\ Drained)
          => \A k \in EventEnum : Issued(k)

\* All ten queries were issued, and the ledger has grown since the head read.
C1_Witness ==
    /\ \A k \in EventEnum : Issued(k)
    /\ head > syncedToBlock.value
    /\ rFrom.value = BlockNum(2)

\* C2: no historical query has been issued while the head-height read of the
\* call has not completed.
C2_HeadBeforeQueries ==
    \A k \in EventEnum : Issued(k) => syncedToBlock.state = "resolved"

\* The head read has completed and the first query is out, the others
\* still waiting for their turn.
C2_Witness ==
    /\ syncedToBlock.state = "resolved"
    /\ q["Created"].state = "sent"
    /\ q["Completed"].state = "waiting"

\* C3: whatever blocks are appended while a resync() is in progress, no
\* delivered collection holds an event of a block above syncedToBlock.
C3_NothingAboveSyncedToBlock ==
    \A c \in CollNames :
        coll[c].state = "resolved" =>
            \A i \in DOMAIN coll[c].src : coll[c].src[i][1] <= syncedToBlock.value

\* Every collection is delivered, after the ledger grew past the captured
\* height by a block that holds events of the kinds queried.
C3_Witness ==
    /\ \A c \in CollNames : coll[c].state = "resolved"
    /\ syncedToBlock.value = 1
    /\ head = 2
    /\ \E l \in Range(BlockLogs(2)) : l.event = "Cancelled"
    /\ coll["createdContracts"].src # <<>>

\* C5: each delivered collection holds exactly one normalized event per raw
\* log of its kinds whose block lies in [fromBlock, captured head]: none
\* missing, none twice, none of another kind, each as the specification
\* prescribes (a PriceChanged log yields the offer and the price only).
C5_ExactlyTheLogsInRange ==
    \A c \in CollNames :
        coll[c].state = "resolved" =>
            /\ Len(coll[c].events) = Len(coll[c].src)
            /\ Range(coll[c].src) = Snapshot(KindsOf(c))
            /\ Cardinality(Range(coll[c].src)) = Len(coll[c].src)
            /\ \A i \in DOMAIN coll[c].events :
                  coll[c].events[i] = Normalized(LogOf(coll[c].src[i]))

\* The history of block 1 is one Created, one PriceChanged and one Completed
\* of the same offer (besides a title change and a purchase of another
\* offer), and the three collections hold exactly those.
C5_Witness ==
    /\ syncedToBlock.value = 1 /\ rFrom.value = Genesis
    /\ \A c \in CollNames : coll[c].state = "resolved"
    /\ coll["createdContracts"].events = <<Normalized(LogAt(1, 1))>>
    /\ LogAt(1, 2).event = "PriceChanged"
    /\ \E i \in DOMAIN coll["changedContracts"].events :
          /\ coll["changedContracts"].events[i]
                = [offer |-> LogAt(1, 1).returnValues.offer,
                   price |-> LogAt(1, 2).returnValues.newPrice]
          /\ DOMAIN coll["changedContracts"].events[i] = {"offer", "price"}
    /\ coll["completedContracts"].events = <<[offer |-> LogAt(1, 1).returnValues.offer]>>

-----------------------------------------------------------------------------
(* Claims about the conversions *)

Applied(path) == probe.kind # "none" /\ path \in probe.applied

\* The events a path made of the batch, in the order of the batch.
EventsOf(path) ==
    CASE path = "hist"    -> probe.hist
      [] path = "forward" -> [i \in DOMAIN probe.forward |-> probe.forward[i].args[1]]
      [] OTHER            -> [i \in DOMAIN probe.revert |-> probe.revert[i].args[1]]

\* C6: every Changed event, from the live stream (confirmed or retracted)
\* or from resync(), is made of one raw log and holds the offer and exactly
\* one more field: the one CHANGE_MAPPING pairs with the kind of that log.
C6_OneFieldPerChangedEvent ==
    \A path \in {"hist", "forward", "revert"} :
        (Applied(path) /\ probe.kind \in ChangedKinds) =>
            /\ Len(EventsOf(path)) = Len(probe.events)
            /\ \A i \in DOMAIN probe.events :
                  LET ev == EventsOf(path)[i]
                  IN  /\ "offer" \in DOMAIN ev
                      /\ Cardinality(DOMAIN ev) = 2
                      /\ ev = Normalized(probe.events[i])

\* Two price changes of the same offer were reported in one batch, and all
\* three paths have made two events of them.
C6_Witness ==
    /\ probe.kind = "PriceChanged"
    /\ Len(probe.events) = 2
    /\ probe.events[1].returnValues.offer = probe.events[2].returnValues.offer
    /\ probe.applied = {"hist", "forward", "revert"}
    /\ DOMAIN probe.hist[2] = {"offer", "price"}

\* C7: for every raw log, of a Changed kind, Created, Bought or a
\* payload-free kind, the event the live path hands to the caller equals the
\* event the historical path returns for the same log.
C7_LiveEqualsHistorical ==
    (Applied("hist") /\ Applied("forward")) =>
        /\ Len(probe.forward) = Len(probe.hist)
        /\ \A i \in DOMAIN probe.hist : EventsOf("forward")[i] = probe.hist[i]

\* A title change went through the historical and the live path.
C7_Witness ==
    /\ probe.kind = "TitleChanged"
    /\ {"hist", "forward"} \subseteq probe.applied
    /\ probe.hist # <<>>
    /\ probe.hist[1].title = probe.events[1].returnValues.newTitle

-----------------------------------------------------------------------------
(* Claims about the live subscriptions *)

Registry(s) == streams[s].rev = "registry"

\* Places of the trace of stream s where log id was emitted with the tag.
Places(s, tag, id) ==
    {i \in DOMAIN streams[s].trace :
        streams[s].trace[i].tag = tag /\ streams[s].trace[i].log = id}

\* Places of the trace of stream s where the listener called fn for log id.
Calls(s, fn, id) ==
    {i \in DOMAIN streams[s].trace :
        streams[s].trace[i].fn = fn /\ streams[s].trace[i].log = id}

\* C8: a record emitted as "data" makes the listener call the forward
\* callback with the normalized event and the block number of the record,
\* and not the revert callback; a record emitted as "changed" makes it call
\* the revert callback with the normalized event alone, and not the forward
\* callback.
C8_DataForwardsChangedReverts ==
    \A s \in DOMAIN streams :
        Registry(s) =>
            \A i \in DOMAIN streams[s].trace :
                LET e == streams[s].trace[i]
                IN  /\ e.tag = "data" =>
                          /\ e.fn = "callback"
                          /\ e.args = <<Normalized(LogOf(e.log)), BlockNum(e.log[1])>>
                    /\ e.tag = "changed" =>
                          /\ e.fn = "onRevert"
                          /\ e.args = <<Normalized(LogOf(e.log))>>

\* One stream of onChanged has delivered a record as "data", another a
\* record as "changed".
C8_Witness ==
    \E s, t \in DOMAIN streams :
        /\ s # t /\ Registry(s) /\ Registry(t)
        /\ streams[s].event = "PriceChanged"
        /\ \E i \in DOMAIN streams[s].trace : streams[s].trace[i].tag = "data"
        /\ \E j \in DOMAIN streams[t].trace : streams[t].trace[j].tag = "changed"

\* C9: for a record first confirmed and later retracted, the caller has seen
\* exactly one forward call and then exactly one revert call for it, the
\* revert call carrying the event and no block number.
C9_ForwardThenRevertOnce ==
    \A s \in DOMAIN streams :
        Registry(s) =>
            \A i, j \in DOMAIN streams[s].trace :
                LET d == streams[s].trace[i]
                    c == streams[s].trace[j]
                IN  (d.tag = "data" /\ c.tag = "changed" /\ d.log = c.log /\ i < j) =>
                        /\ Calls(s, "callback", d.log) = {i}
                        /\ Calls(s, "onRevert", d.log) = {j}
                        /\ Len(c.args) = 1
                        /\ c.args[1] = d.args[1]

\* A purchase was confirmed in block 1 and then retracted.
C9_Witness ==
    \E s \in DOMAIN streams :
        /\ Registry(s)
        /\ streams[s].event = "Bought"
        /\ \E id \in Emitted(s, "data") :
              /\ Places(s, "data", id) # {}
              /\ Places(s, "changed", id) # {}
              /\ \A i \in Places(s, "data", id) :
                    \A j \in Places(s, "changed", id) : i < j

\* C10 as stated: when the caller passed onError, every transport error of a
\* stream and every record that fails to decode makes the listener call
\* onError with two arguments, and the stream is released only by
\* unsubscribe().
C10_ErrorsAreReported ==
    \A s \in DOMAIN streams :
        streams[s].onError = "onError" =>
            /\ \A i \in DOMAIN streams[s].trace :
                  streams[s].trace[i].tag \in {"error", "undecodable"} =>
                      /\ streams[s].trace[i].fn = "onError"
                      /\ Len(streams[s].trace[i].args) = 2
            /\ streams[s].active \/ streams[s].releases > 0

-----------------------------------------------------------------------------
(* Claims about the handles *)

\* The handles the caller holds.
Held == {h \in DOMAIN handles : handles[h].returned}

\* The streams behind handle h.
StreamsOf(h) ==
    IF handles[h].type = "simple" THEN {handles[h].subscription}
    ELSE {handles[handles[h].subscriptions[i]].subscription :
             i \in DOMAIN handles[h].subscriptions}

\* The streams on whose handle the caller has called unsubscribe().
Unsubscribed == UNION {StreamsOf(h) : h \in {x \in Held : handles[x].calls > 0}}

\* Logs stream s reports that it has not delivered as "data".
Undelivered(s) ==
    {LogId(l) : l \in Range(StreamLogs(s))} \ Emitted(s, "data")

\* C11: once unsubscribe() has been called on a handle, no record reaching
\* one of its streams is handed to the caller's callbacks: the number of
\* deliveries of the stream stays what it was (so at most one record in
\* flight, here none, is delivered after the call).
C11_NoDeliveryAfterUnsubscribe ==
    [][\A s \in DOMAIN streams :
          s \in Unsubscribed => streams'[s].trace = streams[s].trace]_vars

\* unsubscribe() was called on a handle after a delivery, while the ledger
\* holds a block of records its stream would still have delivered.
C11_Witness ==
    \E s \in Unsubscribed :
        /\ streams[s].trace # <<>>
        /\ Undelivered(s) # {}
        /\ Emissions < MaxEmit
        /\ Registry(s)

\* C12: after any number n >= 1 of unsubscribe() calls on a handle the
\* caller holds, simple or combined, the handle and its children have
\* dropped their references and every underlying stream has been released
\* exactly once and is inactive, as after one call.
C12_UnsubscribeIdempotent ==
    \A h \in Held :
        handles[h].calls >= 1 =>
            /\ handles[h].isNull
            /\ \A s \in StreamsOf(h) :
                  streams[s].releases = 1 /\ ~streams[s].active
            /\ handles[h].type = "combined" =>
                  \A i \in DOMAIN handles[h].subscriptions :
                      handles[handles[h].subscriptions[i]].isNull

\* unsubscribe() was called twice on a simple handle; in other behaviours on
\* a combined one.
C12_Witness ==
    \E h \in Held :
        /\ handles[h].calls = 2
        /\ handles[h].type = "simple"
        /\ streams[handles[h].subscription].releases = 1

\* C13: unsubscribing a combined handle calls unsubscribe() on every one of
\* its children exactly once and leaves every child without its stream,
\* each stream released exactly once; the handle of onChanged has five
\* children, one per stream.
C13_CombinedReleasesEveryChild ==
    \A h \in Held :
        handles[h].type = "combined" =>
            /\ Len(handles[h].subscriptions) = 5
            /\ Cardinality(StreamsOf(h)) = 5
            /\ handles[h].calls >= 1 =>
                  \A i \in DOMAIN handles[h].subscriptions :
                      LET c == handles[handles[h].subscriptions[i]]
                      IN  /\ c.calls = 1
                          /\ c.isNull
                          /\ ~streams[c.subscription].active
                          /\ streams[c.subscription].releases = 1

\* The handle of onChanged was unsubscribed after one of its streams had
\* delivered a record.
C13_Witness ==
    \E h \in Held :
        /\ handles[h].type = "combined"
        /\ handles[h].calls = 1
        /\ \E s \in StreamsOf(h) : streams[s].trace # <<>>

\* The kinds and fields of the Changed family as the specification lists them.
KnownRows ==
    << <<"TitleChanged", "title", "newTitle">>,
       <<"PriceChanged", "price", "newPrice">>,
       <<"CategoryChanged", "category", "newCategory">>,
       <<"ShipsFromChanged", "shipsFrom", "newShipsFrom">>,
       <<"AttachedFilesChanged", "attachedFiles", "newCID">> >>

\* C14: onChanged opens exactly one stream per known row, in that order, all
\* with the fromBlock and the onError of the call, and returns one combined
\* handle over them; every record of such a stream yields the field of its
\* row read from the raw field of its row; the kinds followed are the kinds
\* resync() queries for changedContracts.
C14_OneStreamPerRow ==
    \A h \in Held :
        handles[h].type = "combined" =>
            LET ch == handles[h].subscriptions
                st(i) == streams[handles[ch[i]].subscription]
            IN  /\ Len(ch) = Len(KnownRows)
                /\ Cardinality(StreamsOf(h)) = Len(KnownRows)
                /\ \A i \in DOMAIN ch : ~handles[ch[i]].returned
                /\ \A i \in DOMAIN ch :
                      /\ st(i).event = KnownRows[i][1]
                      /\ st(i).fromBlock = st(1).fromBlock
                      /\ st(i).onError = st(1).onError
                      /\ \A j \in DOMAIN st(i).trace :
                            st(i).trace[j].tag \in {"data", "changed"} =>
                                st(i).trace[j].args[1] =
                                    [f \in {"offer", KnownRows[i][2]} |->
                                        LogOf(st(i).trace[j].log).returnValues[
                                            IF f = "offer" THEN "offer" ELSE KnownRows[i][3]]]
                /\ {st(i).event : i \in DOMAIN ch} = KindsOf("changedContracts")

\* onChanged was called with fromBlock 1 and its stream of the attached
\* files has delivered a record.
C14_Witness ==
    \E h \in Held :
        /\ handles[h].type = "combined"
        /\ \E s \in StreamsOf(h) :
              /\ streams[s].event = "AttachedFilesChanged"
              /\ streams[s].fromBlock = BlockNum(1)
              /\ streams[s].trace # <<>>
              /\ streams[s].trace[1].tag = "data"

-----------------------------------------------------------------------------
(* Claims about findCid() *)

CidDone == cidCall.state = "done"

\* All AttachedFilesChanged records of the registry whose newCID is cid.
History(cid) == SelectSeq(afLogs, LAMBDA l : l.returnValues.newCID = cid)

\* The offers a record of the history of cid names that hold cid now.
Holders(cid) ==
    { o \in {History(cid)[i].returnValues.offer : i \in DOMAIN History(cid)} :
        offerState[o].attachedFiles = cid }

\* C15: findCid(cid) returns NOT_FOUND exactly when the history of
\* AttachedFilesChanged records with newCID = cid is empty, and it returns
\* one of its three results, never an error.
C15_NotFoundIffNoHistory ==
    CidDone =>
        /\ cidCall.result[1] \in {"NOT_FOUND", "GONE", "FOUND"}
        /\ cidCall.result[1] = "NOT_FOUND" <=> History(cidCall.cid) = <<>>

\* C16: findCid(cid) returns GONE exactly when the history of cid is not
\* empty and no offer it names has attachedFiles equal to cid now.
C16_GoneIffNoHolder ==
    CidDone =>
        (cidCall.result[1] = "GONE"
            <=> History(cidCall.cid) # <<>> /\ Holders(cidCall.cid) = {})

\* C17: when findCid(cid) returns FOUND, the status set is the set of the
\* current statuses of exactly the offers the history of cid names and that
\* hold cid now.
C17_FoundStatusSet ==
    (CidDone /\ cidCall.result[1] = "FOUND") =>
        cidCall.result[2] = {offerState[o].currentStatus : o \in Holders(cidCall.cid)}

\* C18: every record of the history of cid, at whatever block from genesis
\* to the head, is among the records findCid(cid) went through.
C18_FullHistoryScanned ==
    CidDone => Range(History(cidCall.cid)) \subseteq Range(cidCall.events)

-----------------------------------------------------------------------------
(* Claims about resync() followed by a subscription *)

\* The collection of resync() for the kind of stream s.
CollFor(s) == coll[CollOf(streams[s].event)]

\* Places of the confirmed logs of the kind of stream s from the fromBlock
\* of the resync() call on.
Confirmed(s) ==
    {LogId(l) : l \in {x \in Range(LedgerLogs(head)) :
                          /\ x.event = streams[s].event
                          /\ x.blockNumber >= LowerBound(rFrom.value)}}

\* The collection is delivered and the stream has delivered all it reports.
Settled(s) == CollFor(s).state = "resolved" /\ Undelivered(s) = {}

\* C19: with resync(f) followed by a subscription from syncedToBlock, and
\* blocks arriving at any moment, every confirmed event of the kind at a
\* block >= f is in the resync collection or is handed to the forward
\* callback: none falls between the two.
C19_NoGap ==
    \A s \in DOMAIN streams :
        Settled(s) =>
            Confirmed(s) \subseteq (Range(CollFor(s).src) \cup Emitted(s, "data"))

\* A block arrived after the head read: changedContracts holds the price
\* change of block 1 and the stream of onChanged for the shipping origin has
\* delivered the change of block 2.
C19_Witness ==
    \E s, t \in DOMAIN streams :
        /\ Settled(s)
        /\ head > syncedToBlock.value
        /\ streams[s].event = "ShipsFromChanged"
        /\ Emitted(s, "data") # {}
        /\ Emitted(s, "data") \cap Range(CollFor(s).src) = {}
        /\ streams[t].event = "PriceChanged"
        /\ LogId(LogAt(1, 2)) \in Range(CollFor(t).src)

\* C20: with resync() followed by a subscription from syncedToBlock, an
\* event is both in the resync collection and among the live forward
\* deliveries only if its block is syncedToBlock, and every event of that
\* block is in both: the boundary block is delivered again.
C20_DuplicatesOnlyAtBoundary ==
    \A s \in DOMAIN streams :
        /\ CollFor(s).state = "resolved" =>
              \A id \in Range(CollFor(s).src) \cap Emitted(s, "data") :
                  id[1] = syncedToBlock.value
        /\ Settled(s) =>
              \A id \in Confirmed(s) :
                  id[1] = syncedToBlock.value =>
                      id \in Range(CollFor(s).src) \cap Emitted(s, "data")

\* A price change of the block of syncedToBlock is in changedContracts and
\* was delivered live by the stream of onChanged as well.
C20_Witness ==
    \E s \in DOMAIN streams :
        /\ streams[s].event = "PriceChanged"
        /\ Settled(s)
        /\ \E id \in Range(CollFor(s).src) \cap Emitted(s, "data") :
              id[1] = syncedToBlock.value

-----------------------------------------------------------------------------
(* Claims about the defaults and the independence of the operations *)

\* C21: a subscribe operation called without fromBlock opens its stream
\* from "latest" and hands the caller no record of a block that existed
\* when it was called; called without onError, an error of the stream runs
\* the no-op and none of the caller's callbacks, and nothing is thrown.
C21_SubscribeDefaults ==
    \A s \in DOMAIN streams :
        Registry(s) =>
            /\ streams[s].given.fromBlock = NoBlock =>
                  /\ streams[s].fromBlock = Latest
                  /\ \A i \in DOMAIN streams[s].trace :
                        streams[s].trace[i].tag \in {"data", "changed"} =>
                            streams[s].trace[i].log[1] > streams[s].openedAt
            /\ streams[s].given.onError = "undefined" =>
                  \A i \in DOMAIN streams[s].trace :
                      streams[s].trace[i].tag = "error" =>
                          streams[s].trace[i].fn = "nopError"

\* onCreated was called with no fromBlock and no onError when block 1, which
\* holds a Created record, was there: the stream has had an error and has
\* delivered nothing, though it was free to.
C21_Witness ==
    \E s \in DOMAIN streams :
        /\ Registry(s)
        /\ streams[s].event = "Created"
        /\ streams[s].given = [fromBlock |-> NoBlock, onError |-> "undefined"]
        /\ streams[s].openedAt = 1
        /\ LogAt(1, 1).event = "Created"
        /\ Len(streams[s].trace) = 1
        /\ streams[s].trace[1].tag = "error"
        /\ streams[s].active
        /\ Emissions < MaxEmit

\* C22: resync() called without fromBlock queries from "genesis", and what
\* it delivers covers the whole history up to the captured height; called
\* with a checkpoint, every query has the checkpoint as its lower bound.
C22_ResyncLowerBound ==
    /\ \A k \in EventEnum :
          Issued(k) =>
              q[k].options.fromBlock
                  = IF rFrom.given = NoBlock THEN Genesis ELSE rFrom.given
    /\ rFrom.given = NoBlock /\ rpc = "called" =>
          \A c \in CollNames :
              coll[c].state = "resolved" =>
                  Range(coll[c].src)
                      = { LogId(l) : l \in { x \in Range(LedgerLogs(head)) :
                                                /\ x.event \in KindsOf(c)
                                                /\ x.blockNumber <= syncedToBlock.value } }

\* resync() without fromBlock at height 2: the Created record of block 1
\* and the Cancelled record of block 2 are both delivered.
C22_Witness ==
    /\ rpc = "called" /\ rFrom.given = NoBlock
    /\ syncedToBlock.value = 2
    /\ \A c \in CollNames : coll[c].state = "resolved"
    /\ \E i \in DOMAIN coll["createdContracts"].src : coll["createdContracts"].src[i][1] = 1
    /\ \E i \in DOMAIN coll["cancelledContracts"].src : coll["cancelledContracts"].src[i][1] = 2

\* C23: within one resync() call, once the head height is known, a query
\* that is still to be issued never finds another query of the call
\* completed, by a result or by a failure: no issuance waits for a result.
C23_QueriesIssuedIndependently ==
    \A k \in EventEnum :
        rpc = "called" /\ HeadKnown /\ q[k].state = "waiting" =>
            \A j \in EventEnum : q[j].state \notin {"resolved", "rejected"}

\* The ten requests of one call are in flight together, none answered.
C23_Witness ==
    /\ rpc = "called" /\ HeadKnown
    /\ \A k \in EventEnum : q[k].state = "sent"
    /\ Cardinality(EventEnum) = 10
    /\ \A c \in CollNames : coll[c].state = "pending"

\* C24: a step that changes a stream or a handle (a subscription opened, a
\* record delivered, an unsubscribe) changes nothing of the resync, its
\* collections and syncedToBlock included; a step of the resync (the call,
\* the head height, a query issued or answered) changes no stream and no
\* handle.
C24_NoInterference ==
    [][ /\ <<streams, handles>>' # <<streams, handles>> => resyncVars' = resyncVars
        /\ resyncVars' # resyncVars => <<streams, handles>>' = <<streams, handles>> ]_vars

\* The resync captured height 1 and has delivered some collections, others
\* are awaited; the stream opened by onCancelled has delivered the record
\* of block 2 and is open.
C24_Witness ==
    /\ rpc = "called" /\ syncedToBlock = [state |-> "resolved", value |-> 1]
    /\ \E k \in EventEnum : q[k].state = "sent"
    /\ coll["createdContracts"].state = "resolved"
    /\ coll["createdContracts"].src # <<>>
    /\ \E s \in DOMAIN streams :
          /\ streams[s].active
          /\ \E i \in DOMAIN streams[s].trace :
                /\ streams[s].trace[i].tag = "data"
                /\ streams[s].trace[i].log[1] = 2

-----------------------------------------------------------------------------
(* Claims about the delivery of one record *)

\* The listener runs made for the record id arriving with the tag, over all
\* the streams.
Runs(tag, id) ==
    UNION { { <<s, i>> : i \in Places(s, tag, id) } : s \in DOMAIN streams }

\* C25: a record arriving on the live streams, as confirmed or as retracted,
\* makes one listener run and one call of a callback of the caller, on the
\* stream of the record's own kind; within onChanged the event passed
\* holds the offer and the field of the record's own CHANGE_MAPPING row.
C25_OneCallOnOwnKind ==
    \A s \in DOMAIN streams :
        Registry(s) =>
            \A i \in DOMAIN streams[s].trace :
                LET e == streams[s].trace[i]
                    k == LogOf(e.log).event
                IN  e.tag \in {"data", "changed"} =>
                        /\ Runs(e.tag, e.log) = {<<s, i>>}
                        /\ streams[s].event = k
                        /\ e.fn = IF e.tag = "data" THEN "callback" ELSE "onRevert"
                        /\ k \in ChangedKinds =>
                              DOMAIN e.args[1] = {"offer", CHANGE_MAPPING[RowOf(k)].objField}

\* onChanged from block 1: the PriceChanged and the TitleChanged record of
\* block 1 have arrived, each on its own stream, and the three other
\* streams have delivered nothing.
C25_Witness ==
    /\ Len(streams) = Len(CHANGE_MAPPING)
    /\ \A s \in DOMAIN streams : Registry(s) /\ streams[s].lower = 1
    /\ \E s, t \in DOMAIN streams :
          /\ streams[s].event = "PriceChanged" /\ streams[t].event = "TitleChanged"
          /\ Len(streams[s].trace) = 1 /\ streams[s].trace[1].tag = "data"
          /\ Len(streams[t].trace) = 1 /\ streams[t].trace[1].tag = "changed"
          /\ \A u \in DOMAIN streams \ {s, t} : streams[u].trace = <<>>

\* C26: a step that delivers a record (confirmed, retracted or error)
\* leaves every handle and, but for the trace that records the delivery,
\* every stream as it was; a handle changes only by a call of its
\* unsubscribe(); and a retracted record makes the listener call the revert
\* callback whether or not the stream delivered it as confirmed before.
C26_DeliveryKeepsState ==
    [][ /\ (\E s \in DOMAIN streams : streams'[s].trace # streams[s].trace) =>
              /\ handles' = handles
              /\ \A s \in DOMAIN streams :
                    [streams'[s] EXCEPT !.trace = streams[s].trace] = streams[s]
        /\ \A h \in DOMAIN handles :
              handles'[h] # handles[h] => handles'[h].calls = handles[h].calls + 1
        /\ \A s \in DOMAIN streams :
              \A i \in DOMAIN streams'[s].trace :
                  Registry(s) /\ streams'[s].trace[i].tag = "changed" =>
                      streams'[s].trace[i].fn = "onRevert" ]_vars

\* The stream of onCompleted has had an error, then the Completed record of
\* block 1 has arrived as retracted without having arrived as confirmed:
\* the revert callback was called, and the handle is as onCompleted
\* returned it.
C26_Witness ==
    \E s \in DOMAIN streams :
        /\ Registry(s) /\ streams[s].event = "Completed" /\ streams[s].active
        /\ Len(streams[s].trace) = 2
        /\ streams[s].trace[1].tag = "error"
        /\ streams[s].trace[2].tag = "changed"
        /\ streams[s].trace[2].fn = "onRevert"
        /\ Emitted(s, "data") = {}
        /\ \E h \in DOMAIN handles :
              /\ handles[h] = SimpleHandle(s, TRUE)
              /\ handles[h].calls = 0

-----------------------------------------------------------------------------
(* Claims about changedContracts *)

\* C27: as soon as one of the five per-row queries has failed,
\* changedContracts has failed; it is delivered exactly when the five have
\* succeeded, and then holds the events of each of the five results, and
\* with them every Changed-family record of the range queried.
C27_ChangedAllOrFail ==
    LET cc == coll["changedContracts"]
    IN  /\ (\E k \in ChangedKinds : q[k].state = "rejected") => cc.state = "rejected"
        /\ cc.state = "resolved" <=> \A k \in ChangedKinds : parts[k].state = "resolved"
        /\ cc.state = "resolved" =>
              /\ \A k \in ChangedKinds :
                    /\ q[k].state = "resolved"
                    /\ Range(parts[k].src) \subseteq Range(cc.src)
                    /\ Range(parts[k].events) \subseteq Range(cc.events)
              /\ Range(cc.src) = Snapshot(ChangedKinds)
              /\ Len(cc.events) = Cardinality(Snapshot(ChangedKinds))

\* The query of ShipsFromChanged has failed after the four others had
\* succeeded, two of them with events: changedContracts has failed.
C27_Witness ==
    /\ q["ShipsFromChanged"].state = "rejected"
    /\ \A k \in ChangedKinds \ {"ShipsFromChanged"} : parts[k].state = "resolved"
    /\ parts["PriceChanged"].events # <<>>
    /\ parts["AttachedFilesChanged"].events # <<>>
    /\ coll["changedContracts"].state = "rejected"
    /\ coll["createdContracts"].state = "resolved"

-----------------------------------------------------------------------------
(* Claims about the scan of findCid() *)

\* The offers named by the records that the call scanned.
Named == { cidCall.events[i].returnValues.offer : i \in DOMAIN cidCall.events }

\* C28: the result of findCid(cid) is determined by the set of offers that
\* the scanned records name and by the state of those offers, whatever the
\* order of the records and however many of them name the same offer.
C28_ScanOrderIrrelevant ==
    CidDone =>
        cidCall.result
            = CidResult(Named # {},
                        { offerState[o].currentStatus :
                            o \in {n \in Named : offerState[n].attachedFiles = cidCall.cid} })

\* The call scanned three records naming two offers, one of them twice and
\* with the record of the other in between; both offers hold the
\* identifier, in different statuses.
C28_Witness ==
    /\ CidDone
    /\ Len(cidCall.events) = 3
    /\ cidCall.events[1].returnValues.offer = cidCall.events[3].returnValues.offer
    /\ cidCall.events[1].returnValues.offer # cidCall.events[2].returnValues.offer
    /\ cidCall.result[1] = "FOUND"
    /\ Cardinality(cidCall.result[2]) = 2

\* C29 as stated: in the revision that returns a bare CidSearchResult,
\* findCid(cid) returns FOUND whenever a record it scanned names an offer
\* whose attachedFiles is cid now, and GONE only when it scanned records
\* and none names such an offer.
C29_BareFoundIffHeld ==
    cidCall.state = "bare done" =>
        LET held == \E o \in Named : offerState[o].attachedFiles = cidCall.cid
        IN  /\ held => cidCall.result[1] = "FOUND"
            /\ cidCall.result[1] = "GONE" => Named # {} /\ ~held

-----------------------------------------------------------------------------
(* Claims about MAPPERS *)

\* C30 as stated: every mapper throws on a raw value of an unexpected type:
\* the mappers of offer, seller, title, price, category, shipsFrom,
\* attachedFiles and buyer on a value that is not a string, the mapper of
\* status on a value that is neither a string nor a number.
C30_MappersRejectUnexpectedTypes ==
    probe.kind = "mapper" =>
        /\ probe.field # "status" /\ probe.raw.type # "string" => ~probe.result.ok
        /\ probe.field = "status" /\ probe.raw.type \notin {"string", "number"}
              => ~probe.result.ok

-----------------------------------------------------------------------------
(* Claims about the order of changedContracts *)

Joined == probe.kind = "chain" /\ probe.joined.state = "resolved"

\* The logs of one kind in the order of the chain.
OfKind(k) == SelectSeq(probe.logs, LAMBDA l : l.event = k)

\* The Changed event the specification prescribes for a raw log.
ChangedOf(l) ==
    [f \in {"offer", CHANGE_MAPPING[RowOf(l.event)].objField} |->
        IF f = "offer" THEN l.returnValues.offer
        ELSE l.returnValues[CHANGE_MAPPING[RowOf(l.event)].ethField]]

\* C31: changedContracts is the list of the title changes, then the price
\* changes, then the category, shipsFrom and attachedFiles changes, each in
\* the order the node returned them; its length is the sum of the five.
C31_ConcatInRowOrder ==
    Joined =>
        LET rows == OfKind("TitleChanged") \o OfKind("PriceChanged")
                      \o OfKind("CategoryChanged") \o OfKind("ShipsFromChanged")
                      \o OfKind("AttachedFilesChanged")
        IN  /\ probe.joined.src = [i \in DOMAIN rows |-> LogId(rows[i])]
            /\ probe.joined.events = [i \in DOMAIN rows |-> ChangedOf(rows[i])]
            /\ Len(probe.joined.events)
                  = Len(OfKind("TitleChanged")) + Len(OfKind("PriceChanged"))
                    + Len(OfKind("CategoryChanged")) + Len(OfKind("ShipsFromChanged"))
                    + Len(OfKind("AttachedFilesChanged"))

\* A price change in block 1, then title changes in blocks 2 and 3: the
\* collection has the two title changes first, and is not ordered by block.
C31_Witness ==
    /\ Joined
    /\ Len(probe.joined.src) = 3
    /\ probe.logs[1].event = "PriceChanged"
    /\ probe.joined.src = << <<2, 1>>, <<3, 1>>, <<1, 1>> >>

\* What a consumer knows of the offers: per offer, the value of each field
\* that a Changed event can carry.
ObjFields == {CHANGE_MAPPING[i].objField : i \in DOMAIN CHANGE_MAPPING}
Blank == [o \in Range(Offers) |-> [f \in ObjFields |-> Undefined]]

\* The consumer applies one Changed event: the fields it carries, but for
\* the offer, are written to the offer it names.
ApplyEvent(known, e) ==
    [known EXCEPT ![e.offer] =
        [f \in ObjFields |-> IF f \in DOMAIN e THEN e[f] ELSE known[e.offer][f]]]

RECURSIVE ApplyEvents(_, _)
ApplyEvents(known, events) ==
    IF events = <<>> THEN known
    ELSE ApplyEvents(ApplyEvent(known, Head(events)), Tail(events))

\* The Changed events of the history in chain order.
ChainEvents == [i \in DOMAIN probe.logs |-> ChangedOf(probe.logs[i])]

\* C32: applying the events of changedContracts in the order returned
\* leaves every field of every offer with the value that applying the same
\* events in chain order leaves.
C32_SameFinalValues ==
    Joined => ApplyEvents(Blank, probe.joined.events) = ApplyEvents(Blank, ChainEvents)

\* The price of an offer changed in block 1 and again in block 2, after a
\* title change of the same offer: the collection is not in chain order and
\* the consumer ends with the price of block 2.
C32_Witness ==
    /\ Joined
    /\ Len(probe.logs) = 3
    /\ probe.logs[1].event = "PriceChanged"
    /\ probe.logs[2].event = "TitleChanged"
    /\ probe.logs[3].event = "PriceChanged"
    /\ probe.logs[3].blockNumber = 2
    /\ \A i \in 1..3 : probe.logs[i].returnValues.offer = Offers[1]
    /\ probe.joined.events # ChainEvents
    /\ ApplyEvents(Blank, probe.joined.events)[Offers[1]].price
          = probe.logs[3].returnValues.newPrice

-----------------------------------------------------------------------------
(* Claims about a failed head read *)

\* C33: when the head read of a resync() has failed, syncedToBlock is
\* rejected, each of the six collections is rejected with the error of the
\* head read, and none of the ten queries has been issued.
C33_HeadReadFailureFailsAll ==
    syncedToBlock.state = "rejected" =>
        /\ \A c \in CollNames :
              coll[c].state = "rejected" /\ coll[c].error = "getBlockNumber"
        /\ Cardinality(CollNames) = 6
        /\ \A k \in EventEnum : ~Issued(k)

\* The head read of a resync() from a checkpoint failed at height 2.
C33_Witness ==
    /\ rpc = "called" /\ head = 2
    /\ syncedToBlock.state = "rejected"
    /\ coll["changedContracts"].state = "rejected"
    /\ failures = 1

-----------------------------------------------------------------------------
(* Claims about the event of the revert callback *)

\* C34: for every raw log of every kind, the event that the "changed"
\* listener passes to the revert callback equals, field by field, the event
\* that the "data" listener passes to the forward callback.
C34_RevertEqualsForward ==
    (Applied("forward") /\ Applied("revert")) =>
        /\ Len(probe.revert) = Len(probe.forward)
        /\ \A i \in DOMAIN probe.forward :
              LET fw == probe.forward[i].args[1]
                  rv == probe.revert[i].args[1]
              IN  /\ DOMAIN rv = DOMAIN fw
                  /\ \A f \in DOMAIN fw : rv[f] = fw[f]

\* Two purchases went through both listeners, the buyer in each event.
C34_Witness ==
    /\ probe.kind = "Bought"
    /\ {"forward", "revert"} \subseteq probe.applied
    /\ Len(probe.events) = 2
    /\ probe.events[1] # probe.events[2]
    /\ probe.forward[1].fn = "callback" /\ probe.revert[1].fn = "onRevert"
    /\ probe.revert[2].args[1].buyer = probe.events[2].returnValues.buyer

-----------------------------------------------------------------------------
(* Claims about composed handles *)

\* C35: whatever unsubscribe() calls were made, in whatever order, on a
\* simple handle and on the composites that contain it, the stream of the
\* handle has been released at most once, and once exactly when one of
\* those handles was called.
C35_ReleaseAtMostOnce ==
    \A s \in DOMAIN streams :
        /\ streams[s].releases <= 1
        /\ streams[s].releases = 1
              <=> \E h \in Held : s \in StreamsOf(h) /\ handles[h].calls > 0

\* A simple handle was unsubscribed directly, then a composite that holds
\* it, then a second composite that shares both children, the first
\* composite twice: each stream was released once.
C35_Witness ==
    \E a, c, d \in Held :
        /\ handles[a].type = "simple" /\ handles[a].calls >= 3
        /\ handles[c].type = "combined" /\ handles[c].calls = 2
        /\ handles[d].type = "combined" /\ handles[d].calls = 1 /\ c # d
        /\ handles[c].subscriptions[1] = a
        /\ handles[d].subscriptions[2] = a
        /\ \A s \in DOMAIN streams : streams[s].releases = 1

\* C36: a call of unsubscribe() on a composite that has its list either
\* raises at some child, and then the children before it were called, the
\* children after it and their streams are as they were and the composite
\* keeps its list; or it returns, and then every child of the list was
\* called, a child without its reference releasing nothing.
C36_RaiseKeepsTheList ==
    [][ \A h \in DOMAIN handles :
          LET cs == handles[h].subscriptions
              Called(j) == handles'[cs[j]].calls = handles[cs[j]].calls + 1
              Same(j) ==
                  /\ handles'[cs[j]] = handles[cs[j]]
                  /\ streams'[handles[cs[j]].subscription]
                        = streams[handles[cs[j]].subscription]
          IN  ( /\ handles[h].type = "combined"
                /\ ~handles[h].isNull
                /\ handles'[h].calls = handles[h].calls + 1 ) =>
                  IF failures' # failures
                  THEN /\ ~handles'[h].isNull
                       /\ handles'[h].subscriptions = cs
                       /\ \E i \in DOMAIN cs :
                             /\ \A j \in 1..i : Called(j)
                             /\ ~handles'[cs[i]].isNull
                             /\ \A j \in (i + 1)..Len(cs) : Same(j)
                  ELSE /\ handles'[h].isNull
                       /\ \A j \in DOMAIN cs :
                             /\ Called(j)
                             /\ handles'[cs[j]].isNull
                             /\ handles[cs[j]].isNull =>
                                   streams'[handles[cs[j]].subscription]
                                     = streams[handles[cs[j]].subscription] ]_vars

\* The release of the first child of a composite raised; a second call of
\* the composite went through both children: the first was called twice and
\* its release twice, the second once.
C36_Witness ==
    \E h \in Held :
        /\ handles[h].type = "combined" /\ handles[h].calls = 2 /\ handles[h].isNull
        /\ failures = 1
        /\ LET a == handles[h].subscriptions[1]
               b == handles[h].subscriptions[2]
           IN  /\ handles[a].calls = 2 /\ handles[a].isNull
               /\ streams[handles[a].subscription].releases = 2
               /\ handles[b].calls = 1 /\ handles[b].isNull
               /\ streams[handles[b].subscription].releases = 1

-----------------------------------------------------------------------------
(* Claims about findCid() on a chain that goes on *)

\* C37 as stated: every status of the set that findCid(cid) returns with
\* FOUND is a status that an offer named by a scanned record has had while
\* its attachedFiles was cid, whatever transactions were mined during the
\* call.
C37_StatusHeldWithCid ==
    (cidCall.state = "done" /\ cidCall.result[1] = "FOUND") =>
        \A st \in cidCall.result[2] :
            \E o \in Named : <<o, cidCall.cid, st>> \in Seen

-----------------------------------------------------------------------------
(* Claims about cvtToStatus *)

\* The status that each key name and each value of the enum stands for.
StatusNamed ==
    ( "WAITING_BUYER" :> "0" @@ "PENDING_CONFIRMATION" :> "1" @@
      "COMPLETED" :> "2" @@ "CANCELLED" :> "3" @@
      "0" :> "0" @@ "1" :> "1" @@ "2" :> "2" @@ "3" :> "3" )

\* C38: cvtToStatus gives the status for every key name and every value of
\* the enum, given as a string, and for every value given as a number; it
\* raises for every other string or number; and applied to a status it
\* returned it returns that status again.
C38_cvtToStatusTotalAndIdempotent ==
    (probe.kind = "mapper" /\ probe.field = "status"
        /\ probe.raw.type \in {"string", "number"}) =>
        /\ ( /\ probe.raw.text \in DOMAIN StatusNamed
             /\ probe.raw.type = "number" => probe.raw.text \in {"0", "1", "2", "3"} )
             => probe.result = Returned(Str(StatusNamed[probe.raw.text]))
        /\ probe.raw.text \notin DOMAIN StatusNamed => ~probe.result.ok
        /\ probe.result.ok => cvtToStatus(probe.result.value) = probe.result

\* A key name has been converted to its status.
C38_Witness ==
    /\ probe.kind = "mapper" /\ probe.field = "status"
    /\ probe.raw = Str("CANCELLED")
    /\ probe.result = Returned(Str("3"))

====
